---- MODULE Spec2Model ----
(***************************************************************************)
(* Batch TTS engine of the Gemini TTS add-on: the Worker (TTSWorker.run),  *)
(* the Fallback Orchestrator (TTSProcessor.generate_with_fallback) and the *)
(* Synthesis Client (TTSProcessor.generate_audio), together with the       *)
(* owner context that sets the cancel flag and runs marshalled calls.      *)
(***************************************************************************)
EXTENDS Integers, Sequences, FiniteSets, TLC

VARIABLES
    config,               \* the resolved Profile handed to the Worker
    note_ids,             \* the record list of the batch
    transport,            \* the synthesis client the processor talks to
    pc,                   \* position of the worker thread
    idx,                  \* number of list entries the for loop has consumed
    model_name,           \* record type of the record being processed
    mi,                   \* position in configs (the enabled mappings of the type)
    delay_left,           \* iterations left of the inter-request delay loop
    success_ops, failed_ops, skipped_ops, consecutive_errors,
    total_requests, total_input_tokens, total_output_tokens,
    is_cancelled,         \* TTSWorker.is_cancelled
    phase,                \* which generate_audio call of generate_with_fallback runs
    attempt,              \* loop variable of generate_audio
    audio_chunks,         \* whether audio_chunks is non-empty
    usage_stats,          \* usage_stats of the running generate_audio call
    backoff_left,         \* iterations left of the retry backoff loop
    nchunks,              \* chunks the stream of this attempt has yielded
    last_error,           \* text of the exception the except clause last handled
    sent,                 \* transport requests sent by the running generate_audio call
    result,               \* what generate_with_fallback handed to the Worker
    finished_signal,      \* terminal events emitted so far
    ga_exit,              \* history: the statement that ended the last generate_audio call
    n_audio_results,      \* history: orchestrator calls that returned audio
    only_generic,         \* history: the transport has only ever raised generic errors
    pre_streak,           \* history: failed_ops when the current error streak began,
                          \*   kept while only_generic holds (0 afterwards)
    failed_run,           \* history: operations counted failed in a row
    save_failures,        \* history: mappings that got audio and whose save failed
    reset_from,           \* history: consecutive_errors before the latest audio
                          \* result set it to 0
    stored_config,        \* the configuration the add-on manager holds on disk
    global_config,        \* BatchTTSHandler.global_config
    active_config,        \* BatchTTSHandler.active_config
    worker,               \* BatchTTSHandler.worker: "none", "running" or "finished"
    handler_pc,           \* position of the Handler in the owner context
    session_stats,        \* final_stats carried by finished_signal
    emitted,              \* the events the Worker's latest step emitted, in order
    note_text,            \* the source text the records of a text batch hold
    audio_data,           \* the joined payload handed to the encoder, a byte sequence
    mime_type,            \* the recorded descriptor, a character sequence
    mime_db,              \* the MIME table mimetypes loaded on this platform
    entry,                \* the function the payload is passed through
    outputs,              \* the result of each application so far
    waited,               \* ticks the Worker has waited for the marshalled call
    now_ms,               \* int(time.time() * 1000) as the next save_result reads it
    media,                \* mw.col.media: the blob stored under each filename
    col_notes,            \* mw.col: each record's target fields and tags, while present
    saves,                \* the save_result calls of the batch so far, in order
    main_queue,           \* wrappers handed to mw.taskman.run_on_main, not yet run
    container,            \* container and event of the latest _run_on_main_sync call
    note_obj              \* the fields of note_obj, the Note get_note_basic loaded

\* The Handler's state; the Worker never touches it.
handler  == <<stored_config, global_config, active_config, worker, handler_pc,
              session_stats>>
\* The state of an encoder run; the Worker never touches it.
encoder  == <<audio_data, mime_type, mime_db, entry, outputs>>
\* The collection and its media store; only save_result touches them.
store    == <<now_ms, media, col_notes, saves>>
\* The owner context's task queue and what a marshalled call hands back.
owner    == <<main_queue, container, note_obj>>
inputs   == <<config, note_ids, transport, handler, note_text, encoder, store, owner>>
\* What the steps of the loops and of the synthesis call leave alone.
static   == <<inputs, waited>>
position == <<idx, model_name, mi, delay_left>>
counters == <<success_ops, failed_ops, skipped_ops, consecutive_errors>>
streaks  == <<pre_streak, failed_run, reset_from, save_failures>>
session  == <<total_requests, total_input_tokens, total_output_tokens>>
call     == <<phase, attempt, audio_chunks, usage_stats, backoff_left, nchunks,
              last_error, sent>>
history  == <<ga_exit, n_audio_results, only_generic>>
vars     == <<static, pc, position, counters, streaks, session, is_cancelled, call,
              result, finished_signal, history, emitted>>

(***************************************************************************)
(* Bounds of the model.                                                    *)
(***************************************************************************)
MaxNotes   == 6     \* longest record list
MaxOps     == 6     \* enabled mappings of the listed records, in total
MaxChunks  == 1     \* chunks one response stream yields at most
MaxRetries == 3     \* largest retry_attempts of a Profile
MaxTextLen == 4     \* longest source text of a text batch
MaxData    == 3     \* longest payload handed to the encoder, in bytes
MaxClock   == 1     \* milliseconds the clock moves on during the saves of a batch
MaxSaves   == 3     \* saves of a batch
MaxRecords == 1     \* records of a batch whose marshalled calls are followed
MaxWait    == 1     \* ticks until a marshalled call times out (the code's 30 s
                    \* are 300 ticks)

(***************************************************************************)
(* Program constants.                                                      *)
(***************************************************************************)
ErrorThreshold == 5
TicksPerSecond == 10

(***************************************************************************)
(* The Profile.  request_wait is kept in milliseconds, retry_delay in      *)
(* seconds, as the configuration dialog produces them.                     *)
(***************************************************************************)
NoteTypeConfigs ==
    << [note_type |-> "Basic", source_field |-> "Front", target_field |-> "Audio",
        enabled |-> TRUE],
       [note_type |-> "Vocab", source_field |-> "Word", target_field |-> "WordAudio",
        enabled |-> TRUE],
       [note_type |-> "Cloze", source_field |-> "Text", target_field |-> "Audio",
        enabled |-> FALSE],
       [note_type |-> "Vocab", source_field |-> "Sentence",
        target_field |-> "SentenceAudio", enabled |-> TRUE] >>

NoteTypes == {"Basic", "Vocab", "Cloze", "Other"}

Profile(fb, retries, delay, on_empty, wait_ms, skip, verbose) ==
    [ primary_model |-> "primary-tts", fallback_model |-> "fallback-tts",
      enable_fallback |-> fb, retry_attempts |-> retries, retry_delay |-> delay,
      retry_on_empty |-> on_empty, request_wait |-> wait_ms,
      skip_existing_audio |-> skip, verbose_logging |-> verbose,
      note_type_configs |-> NoteTypeConfigs ]

\* Profile of long batches: one transport attempt per synthesis call.
BatchProfiles ==
    { Profile(TRUE, 1, 1, FALSE, 0, TRUE, FALSE) }

\* Profiles of one-record batches: every retry and fallback setting, and the
\* other flags both ways.
CallProfiles ==
    { Profile(fb, r, 1, oe, 0, TRUE, FALSE) :
        fb \in BOOLEAN, r \in 1..MaxRetries, oe \in BOOLEAN }
    \cup { Profile(fb, 1, 1, FALSE, w, sk, vb) :
             fb \in BOOLEAN, w \in {50, 200}, sk \in BOOLEAN, vb \in BOOLEAN }

\* Mutant: the enabled flag of a mapping is not looked at.
note_type_map_IgnoresEnabled(t) ==
    SelectSeq(config.note_type_configs, LAMBDA c : c.note_type = t)

\* note_type_map[t] of TTSWorker.__init__: the enabled mappings of type t, in order.
note_type_map(t) ==
    SelectSeq(config.note_type_configs, LAMBDA c : c.enabled /\ c.note_type = t)

(***************************************************************************)
(* Text clean-up of the Worker: re.sub(r'<[^>]+>', '', text), then         *)
(* re.sub(r'\s+', ' ', ...) and strip().  A text is a sequence of          *)
(* characters.                                                             *)
(***************************************************************************)
IsSpace(c) == c = " "

RECURSIVE StripTags(_)
StripTags(s) ==
    IF s = <<>> THEN <<>>
    ELSE IF /\ Head(s) = "<"
            /\ Len(s) >= 3
            /\ s[2] # ">"
            /\ \E j \in 3..Len(s) : s[j] = ">"
         THEN LET j == CHOOSE k \in 3..Len(s) :
                           s[k] = ">" /\ \A l \in 3..(k - 1) : s[l] # ">"
              IN  StripTags(SubSeq(s, j + 1, Len(s)))
         ELSE <<Head(s)>> \o StripTags(Tail(s))

RECURSIVE CollapseSpace(_)
CollapseSpace(s) ==
    IF s = <<>> THEN <<>>
    ELSE IF IsSpace(Head(s))
         THEN IF Len(s) >= 2 /\ IsSpace(s[2])
              THEN CollapseSpace(Tail(s))
              ELSE <<" ">> \o CollapseSpace(Tail(s))
         ELSE <<Head(s)>> \o CollapseSpace(Tail(s))

RECURSIVE Strip(_)
Strip(s) ==
    IF s = <<>> THEN <<>>
    ELSE IF IsSpace(Head(s)) THEN Strip(Tail(s))
    ELSE IF IsSpace(s[Len(s)]) THEN Strip(SubSeq(s, 1, Len(s) - 1))
    ELSE s

\* Mutant: the final strip() is missing.
CleanText_NoStrip(text) == CollapseSpace(StripTags(text))

CleanText(text) == Strip(CollapseSpace(StripTags(text)))

\* Every text of at most MaxTextLen characters over a small alphabet.
Alphabet == {"<", ">", " ", "a"}

Texts == UNION { [1..n -> Alphabet] : n \in 0..MaxTextLen }

\* Source texts a record may hold.
SourceTexts ==
    { <<"a">>, <<"<", "b", ">">>, <<" ">>, <<"<", "b", ">", " ", "a">>,
      <<"<", ">">> }

\* What the Worker looks at in the record it read, for one mapping:
\* src in note_obj, '[sound:' in note_obj[tgt], note_obj[src].
NoteViews ==
    [ has_src : BOOLEAN, tgt_sound : BOOLEAN, text : SourceTexts ]

(***************************************************************************)
(* Transport errors, by their text, and the classification of             *)
(* generate_audio's except clause.                                         *)
(***************************************************************************)
ErrorTexts == { "429 RESOURCE_EXHAUSTED", "503 UNAVAILABLE", "400 INVALID_ARGUMENT" }

\* The signatures ('429' in error_msg, ...) each lower-cased text contains.
Signatures(msg) ==
    CASE msg = "429 RESOURCE_EXHAUSTED" -> {"429", "resource_exhausted"}
      [] msg = "503 UNAVAILABLE"        -> {"503"}
      [] OTHER                          -> {}

EmptyResponseText == "Received empty audio stream from API."

TransportError(msg) == [type |-> "Exception", msg |-> msg]
EmptyResponseError  == [type |-> "EmptyResponseError", msg |-> EmptyResponseText]
RateLimitError(msg) == [type |-> "RateLimitError", msg |-> msg]

\* isinstance(e, cls) for the three exception classes in play.
IsInstance(e, cls) == cls = "Exception" \/ e.type = cls

IsRateLimit(e) == Signatures(e.msg) \cap {"429", "resource_exhausted"} # {}

IsRetryable(e) ==
    \/ Signatures(e.msg) \cap {"500", "503", "timeout"} # {}
    \/ IsInstance(e, "EmptyResponseError")

(***************************************************************************)
(* Usage dictionaries.  present = FALSE is the empty dict {}.              *)
(***************************************************************************)
ZeroUsage  == [present |-> TRUE, input_tokens |-> 0, output_tokens |-> 0]
EmptyStats == [present |-> FALSE, input_tokens |-> 0, output_tokens |-> 0]
\* The usage metadata a chunk of the stream may carry.
ChunkUsage == [present |-> TRUE, input_tokens |-> 1, output_tokens |-> 2]

Chunks == [ audio : BOOLEAN, usage : BOOLEAN ]

NoResult == [audio |-> FALSE, info |-> "", stats |-> EmptyStats, raised |-> FALSE]

(***************************************************************************)
(* The configuration objects of the Handler.  A Profile object is reduced  *)
(* to what the Handler looks at: the API key ("absent": no such key in the *)
(* object), whether note_type_configs is non-empty, and the usage          *)
(* statistics (present = FALSE: no 'stats' key).  A configuration is one   *)
(* of three shapes: "flat" (the Profile keys at the top level, no          *)
(* 'profiles' key), "flat_empty_profiles" (the same with an empty          *)
(* 'profiles' key) and "profiles" ({current_profile, profiles}); "cyclic"  *)
(* is an object whose profiles entry is the object itself.                 *)
(***************************************************************************)
Stats(r, i, o) ==
    [present |-> TRUE, requests |-> r, input_tokens |-> i, output_tokens |-> o]

NoStats == [present |-> FALSE, requests |-> 0, input_tokens |-> 0, output_tokens |-> 0]

PersistedStats == { NoStats, Stats(0, 0, 0), Stats(2, 5, 7) }

\* final_stats of a run.
SessionStats == { Stats(0, 0, 0), Stats(1, 2, 3), Stats(2, 4, 4) }

ApiKeys == {"absent", "", "key"}

ProfileObject(key, mappings, stats) ==
    [api_key |-> key, mappings |-> mappings, stats |-> stats]

get_default_config == ProfileObject("", FALSE, Stats(0, 0, 0))

FlatShapes == {"flat", "flat_empty_profiles"}

StoredConfigs ==
    [ shape : FlatShapes \cup {"profiles"},
      profile : [api_key : ApiKeys, mappings : BOOLEAN, stats : PersistedStats] ]

\* BatchTTSHandler.__init__: the active Profile of configuration cfg.
ResolveActive(cfg) ==
    IF cfg.shape \in FlatShapes
    THEN IF cfg.profile.api_key # "absent" THEN cfg.profile ELSE get_default_config
    ELSE cfg.profile

\* The Handler of the batch whose Worker is running.
HandlerRunning ==
    /\ stored_config = [shape |-> "profiles",
                        profile |-> ProfileObject("key", TRUE, Stats(0, 0, 0))]
    /\ global_config = stored_config
    /\ active_config = stored_config.profile
    /\ worker = "running"
    /\ handler_pc = "running"
    /\ session_stats = NoStats

(***************************************************************************)
(* The audio encoder: parse_audio_mime_type, convert_to_wav and the end of *)
(* the stream in generate_audio.  Bytes are numbers in 0..255, descriptors  *)
(* are character sequences.                                                 *)
(***************************************************************************)
DigitChars == <<"0", "1", "2", "3", "4", "5", "6", "7", "8", "9">>

IsDigit(c) == \E d \in 1..10 : DigitChars[d] = c

DigitValue(c) == (CHOOSE d \in 1..10 : DigitChars[d] = c) - 1

\* int(s) for an unsigned decimal, surrounding blanks allowed; anything else
\* is a ValueError.  (No descriptor of the model holds a sign or an
\* underscore.)
IntParses(s) == Strip(s) # <<>> /\ \A i \in 1..Len(Strip(s)) : IsDigit(Strip(s)[i])

RECURSIVE DigitsValue(_)
DigitsValue(s) ==
    IF s = <<>> THEN 0
    ELSE DigitsValue(SubSeq(s, 1, Len(s) - 1)) * 10 + DigitValue(s[Len(s)])

IntValue(s) == DigitsValue(Strip(s))

\* str(n) for n >= 0: how the descriptors of the model are written.
RECURSIVE Decimal(_)
Decimal(n) ==
    IF n < 10 THEN <<DigitChars[n + 1]>>
    ELSE Decimal(n \div 10) \o <<DigitChars[(n % 10) + 1]>>

LowerChar(c) ==
    CASE c = "A" -> "a" [] c = "E" -> "e" [] c = "L" -> "l"
      [] c = "R" -> "r" [] c = "T" -> "t" [] OTHER -> c

Lower(s) == [i \in 1..Len(s) |-> LowerChar(s[i])]

StartsWith(s, prefix) ==
    Len(s) >= Len(prefix) /\ SubSeq(s, 1, Len(prefix)) = prefix

Contains(s, c) == \E i \in 1..Len(s) : s[i] = c

IndexOf(s, c) == CHOOSE i \in 1..Len(s) : s[i] = c /\ \A j \in 1..(i - 1) : s[j] # c

\* s.split(c, 1)[1], for s that contains c.
AfterFirst(s, c) == SubSeq(s, IndexOf(s, c) + 1, Len(s))

\* s.split(c)
RECURSIVE Split(_, _)
Split(s, c) ==
    IF ~Contains(s, c) THEN <<s>>
    ELSE <<SubSeq(s, 1, IndexOf(s, c) - 1)>> \o Split(AfterFirst(s, c), c)

RateKey  == <<"r", "a", "t", "e", "=">>
AudioL   == <<"a", "u", "d", "i", "o", "/", "L">>
AudioWav == <<"a", "u", "d", "i", "o", "/", "w", "a", "v">>
AudioXWav == <<"a", "u", "d", "i", "o", "/", "x", "-", "w", "a", "v">>
AudioMpeg == <<"a", "u", "d", "i", "o", "/", "m", "p", "e", "g">>

DefaultBits == 16
DefaultRate == 24000

\* One pass of the loop over the parameters of the descriptor.
ParseParam(raw, acc) ==
    LET param == Strip(raw) IN
    IF StartsWith(Lower(param), RateKey)
    THEN IF IntParses(AfterFirst(param, "="))
         THEN [acc EXCEPT !.rate = IntValue(AfterFirst(param, "="))]
         ELSE acc
    ELSE IF StartsWith(param, AudioL)
    THEN IF IntParses(AfterFirst(param, "L"))
         THEN [acc EXCEPT !.bits_per_sample = IntValue(AfterFirst(param, "L"))]
         ELSE acc
    ELSE acc

RECURSIVE ParseParams(_, _)
ParseParams(parts, acc) ==
    IF parts = <<>> THEN acc
    ELSE ParseParams(Tail(parts), ParseParam(Head(parts), acc))

parse_audio_mime_type(mime) ==
    LET defaults == [bits_per_sample |-> DefaultBits, rate |-> DefaultRate] IN
    IF mime = <<>> THEN defaults
    ELSE ParseParams(Split(mime, ";"), defaults)

\* Mutant: the most significant byte comes first.
LittleEndian_BigEndian(v, n) == [i \in 1..n |-> (v \div (256 ^ (n - i))) % 256]

\* struct's "<" byte order: v in n bytes, least significant byte first.
LittleEndian(v, n) == [i \in 1..n |-> (v \div (256 ^ (i - 1))) % 256]

\* struct.pack raises struct.error for a number its field cannot hold.  A
\* number of the model is below 2^31, so an "I" field holds it if it is not
\* negative.
FitsI(v) == v >= 0

FitsH(v) == v \in 0..65535

Tag(a, b, c, d) == <<a, b, c, d>>

Returns(bytes) == [raised |-> FALSE, bytes |-> bytes]

StructError == [raised |-> TRUE, bytes |-> <<>>]

convert_to_wav(data, mime) ==
    LET parameters == parse_audio_mime_type(mime)
        bits_per_sample == parameters.bits_per_sample
        sample_rate == parameters.rate
        num_channels == 1
        data_size == Len(data)
        bytes_per_sample == bits_per_sample \div 8
        block_align == num_channels * bytes_per_sample
        byte_rate == sample_rate * block_align
        chunk_size == 36 + data_size
        header ==
            Tag(82, 73, 70, 70) \o LittleEndian(chunk_size, 4)
              \o Tag(87, 65, 86, 69) \o Tag(102, 109, 116, 32)
              \o LittleEndian(16, 4) \o LittleEndian(1, 2)
              \o LittleEndian(num_channels, 2) \o LittleEndian(sample_rate, 4)
              \o LittleEndian(byte_rate, 4) \o LittleEndian(block_align, 2)
              \o LittleEndian(bits_per_sample, 2)
              \o Tag(100, 97, 116, 97) \o LittleEndian(data_size, 4)
    IN  IF /\ FitsI(chunk_size) /\ FitsI(sample_rate) /\ FitsI(byte_rate)
           /\ FitsI(data_size) /\ FitsH(block_align) /\ FitsH(bits_per_sample)
        THEN Returns(header \o data)
        ELSE StructError

\* The tables mimetypes may have loaded: the built-in one, which knows
\* audio/x-wav and audio/mpeg, or one extended by the platform's files to know
\* audio/wav as well.
MimeDbs == {"builtin", "extended"}

\* mimetypes.guess_extension(mime) under table db; the lookup lower-cases the
\* whole descriptor, parameters included.
guess_extension(mime, db) ==
    IF Lower(mime) = AudioXWav THEN ".wav"
    ELSE IF Lower(mime) = AudioMpeg THEN ".mp3"
    ELSE IF Lower(mime) = AudioWav /\ db = "extended" THEN ".wav"
    ELSE "None"

\* 'wav' in str(ext).lower(), over the extensions guess_extension yields.
HasWav(ext) == ext = ".wav"

\* The end of a stream that yielded audio: what generate_audio returns for
\* the joined payload.
final_audio(data, mime, db) ==
    LET ext == IF mime # <<>> THEN guess_extension(mime, db) ELSE "None" IN
    IF ext = "None" \/ ~HasWav(ext)
    THEN convert_to_wav(data, IF mime # <<>> THEN mime ELSE AudioWav)
    ELSE Returns(data)

\* Inputs: payloads of at most MaxData bytes, and descriptors.
Bytes == {0, 1, 255}

Payloads == UNION { [1..n -> Bytes] : n \in 0..MaxData }

BitDepths == {8, 16, 24}

SampleRates == {8000, 24000, 44100}

\* "audio/L<b>;rate=<r>"
Descriptor(b, r) == AudioL \o Decimal(b) \o <<";">> \o RateKey \o Decimal(r)

PcmDescriptors == { Descriptor(b, r) : b \in BitDepths, r \in SampleRates }

\* Descriptors that name a playable container.
ContainerDescriptors == {AudioWav, AudioXWav, AudioMpeg}

\* "audio/L16", "audio/L8; Rate=8000", "audio/l16;rate=x", and none.
OtherDescriptors ==
    { AudioL \o Decimal(16),
      AudioL \o Decimal(8) \o <<";", " ", "R">> \o Tail(RateKey) \o Decimal(8000),
      Lower(AudioL) \o Decimal(16) \o <<";">> \o RateKey \o <<"x">>,
      <<>> }

Descriptors == PcmDescriptors \cup ContainerDescriptors \cup OtherDescriptors

\* No encoder run is under way.
EncoderIdle ==
    /\ audio_data = <<>>
    /\ mime_type = <<>>
    /\ mime_db = "builtin"
    /\ entry = "none"
    /\ outputs = <<>>

(***************************************************************************)
(* The collection save_result writes to.                                   *)
(***************************************************************************)
RecordIds    == {1, 2}
TargetFields == {"Audio", "Audio2"}
Blobs        == {"riff_a", "riff_b"}
SuccessTags  == {"", "tts_done"}

\* f"gemini_tts_{nid}_{int(time.time()*1000)}.wav"
GeneratedName(nid, ms) ==
    <<"gemini_tts_">> \o Decimal(nid) \o <<"_">> \o Decimal(ms) \o <<".wav">>

\* f"[sound:{filename}]"
SoundTag(filename) == <<"[sound:">> \o filename \o <<"]">>

\* The collection before the first save of the batch.
StoreIdle ==
    /\ now_ms = 0
    /\ media = <<>>
    /\ col_notes = [nid \in RecordIds |->
                       [present |-> TRUE, fields |-> [f \in TargetFields |-> <<>>],
                        tags |-> {}]]
    /\ saves = <<>>

\* container = {'result': None, 'error': None}; event = threading.Event()
NewContainer == [event |-> FALSE, result |-> <<FALSE, "">>, error |-> FALSE]

\* Nothing is queued in the owner context and no record has been loaded.
OwnerIdle ==
    /\ main_queue = <<>>
    /\ container = NewContainer
    /\ note_obj = [f \in TargetFields |-> <<>>]

(***************************************************************************)
(* Initial state: the Worker is constructed and started.                   *)
(***************************************************************************)
\* A batch runs against a stub client (each request raises an error, or yields
\* one chunk with audio and usage and ends) or against a live stream.  Long
\* batches run against the stub, one-record batches against the live stream.
Scenarios ==
    ({"stub"} \X BatchProfiles \X {0, MaxNotes})
        \cup ({"live"} \X CallProfiles \X {1})

\* TTSWorker.__init__ and the first lines of run, for scenario sc.
WorkerStart(sc) ==
    /\ transport = sc[1]
    /\ config = sc[2]
    /\ note_ids = [i \in 1..sc[3] |-> i]
    /\ pc = "loop"
    /\ idx = 0
    /\ model_name = ""
    /\ mi = 0
    /\ delay_left = 0
    /\ success_ops = 0
    /\ failed_ops = 0
    /\ skipped_ops = 0
    /\ consecutive_errors = 0
    /\ total_requests = 0
    /\ total_input_tokens = 0
    /\ total_output_tokens = 0
    /\ is_cancelled = FALSE
    /\ phase = "none"
    /\ attempt = 0
    /\ audio_chunks = FALSE
    /\ usage_stats = ZeroUsage
    /\ backoff_left = 0
    /\ nchunks = 0
    /\ last_error = ""
    /\ sent = 0
    /\ result = NoResult
    /\ finished_signal = <<>>
    /\ ga_exit = "none"
    /\ n_audio_results = 0
    /\ only_generic = TRUE
    /\ pre_streak = 0
    /\ failed_run = 0
    /\ reset_from = 0
    /\ save_failures = 0
    /\ emitted = <<>>
    /\ waited = 0

Init ==
    /\ \E sc \in Scenarios : WorkerStart(sc)
    /\ HandlerRunning
    /\ note_text = <<>>
    /\ EncoderIdle
    /\ StoreIdle
    /\ OwnerIdle

(***************************************************************************)
(* Events.  A log event is log_html_update.emit(...); kind names the       *)
(* statement that emitted it.                                              *)
(***************************************************************************)
Log(kind) == [signal |-> "log_html_update", kind |-> kind]

\* Mutant: the event is built before the counters are updated.
Progress_StaleCounts(status) ==
    [signal |-> "progress_update", index |-> idx + 1, status |-> status,
     success |-> success_ops, failed |-> failed_ops, skipped |-> skipped_ops]

\* progress_update.emit(idx + 1, status, success_ops, failed_ops, skipped_ops):
\* the event reads the counters as the statements before it left them.
Progress(status) ==
    [signal |-> "progress_update", index |-> idx + 1, status |-> status,
     success |-> success_ops', failed |-> failed_ops', skipped |-> skipped_ops']

\* usage_update.emit(self.total_input_tokens, self.total_output_tokens)
Usage ==
    [signal |-> "usage_update", input_tokens |-> total_input_tokens',
     output_tokens |-> total_output_tokens']

NoEvent == <<>>

\* if verbose: self.log_html_update.emit(...)
VerboseLog(kind) == IF config.verbose_logging THEN <<Log(kind)>> ELSE NoEvent

(***************************************************************************)
(* Counting one operation outcome.  kind is one of "missing", "skipped",   *)
(* "synth_failed", "audio" (audio returned, before the save), "success",   *)
(* "save_failed".                                                          *)
(***************************************************************************)
\* Mutant: a skipped mapping resets the consecutive-error counter.
Count_SkipResets(kind) ==
    /\ success_ops' = IF kind = "success" THEN success_ops + 1 ELSE success_ops
    /\ failed_ops' = IF kind \in {"missing", "synth_failed", "save_failed"}
                     THEN failed_ops + 1 ELSE failed_ops
    /\ skipped_ops' = IF kind = "skipped" THEN skipped_ops + 1 ELSE skipped_ops
    /\ consecutive_errors' = IF kind = "synth_failed" THEN consecutive_errors + 1
                             ELSE IF kind \in {"audio", "skipped"} THEN 0
                             ELSE consecutive_errors
    /\ failed_run' = IF kind \in {"missing", "synth_failed", "save_failed"}
                     THEN failed_run + 1
                     ELSE IF kind \in {"success", "skipped"} THEN 0
                     ELSE failed_run
    /\ reset_from' = IF kind = "audio" THEN consecutive_errors
                     ELSE IF kind \in {"success", "save_failed"} THEN reset_from
                     ELSE 0
    /\ save_failures' = IF kind = "save_failed" THEN save_failures + 1
                        ELSE save_failures
    /\ pre_streak' = IF ~only_generic THEN 0
                     ELSE IF consecutive_errors' = 0 THEN failed_ops'
                     ELSE pre_streak

\* Mutant: a failed save is counted as a success as well.
Count_FailedSaveIsBoth(kind) ==
    /\ success_ops' = IF kind \in {"success", "save_failed"} THEN success_ops + 1
                      ELSE success_ops
    /\ failed_ops' = IF kind \in {"missing", "synth_failed", "save_failed"}
                     THEN failed_ops + 1 ELSE failed_ops
    /\ skipped_ops' = IF kind = "skipped" THEN skipped_ops + 1 ELSE skipped_ops
    /\ consecutive_errors' = IF kind = "synth_failed" THEN consecutive_errors + 1
                             ELSE IF kind = "audio" THEN 0
                             ELSE consecutive_errors
    /\ failed_run' = IF kind \in {"missing", "synth_failed", "save_failed"}
                     THEN failed_run + 1
                     ELSE IF kind \in {"success", "skipped"} THEN 0
                     ELSE failed_run
    /\ reset_from' = IF kind = "audio" THEN consecutive_errors
                     ELSE IF kind \in {"success", "save_failed"} THEN reset_from
                     ELSE 0
    /\ save_failures' = IF kind = "save_failed" THEN save_failures + 1
                        ELSE save_failures
    /\ pre_streak' = IF ~only_generic THEN 0
                     ELSE IF consecutive_errors' = 0 THEN failed_ops'
                     ELSE pre_streak

Count(kind) ==
    /\ success_ops' = IF kind = "success" THEN success_ops + 1 ELSE success_ops
    /\ failed_ops' = IF kind \in {"missing", "synth_failed", "save_failed"}
                     THEN failed_ops + 1 ELSE failed_ops
    /\ skipped_ops' = IF kind = "skipped" THEN skipped_ops + 1 ELSE skipped_ops
    /\ consecutive_errors' = IF kind = "synth_failed" THEN consecutive_errors + 1
                             ELSE IF kind = "audio" THEN 0
                             ELSE consecutive_errors
    /\ failed_run' = IF kind \in {"missing", "synth_failed", "save_failed"}
                     THEN failed_run + 1
                     ELSE IF kind \in {"success", "skipped"} THEN 0
                     ELSE failed_run
    /\ reset_from' = IF kind = "audio" THEN consecutive_errors
                     ELSE IF kind \in {"success", "save_failed"} THEN reset_from
                     ELSE 0
    /\ save_failures' = IF kind = "save_failed" THEN save_failures + 1
                        ELSE save_failures
    /\ pre_streak' = IF ~only_generic THEN 0
                     ELSE IF consecutive_errors' = 0 THEN failed_ops'
                     ELSE pre_streak

(***************************************************************************)
(* TTSWorker.run: the record loop.                                         *)
(***************************************************************************)
\* Mutant: the breaker trips one failure late.
ThresholdReached_OffByOne == consecutive_errors > ErrorThreshold

\* consecutive_errors >= 5
ThresholdReached == consecutive_errors >= ErrorThreshold

\* Mutant: the Worker ends after the last record without the summary.
LoopExhausted_NoSummary ==
    /\ pc = "loop"
    /\ emitted' = NoEvent
    /\ idx = Len(note_ids)
    /\ pc' = "done"
    /\ UNCHANGED <<static, position, counters, streaks, session, is_cancelled, call,
                   result, finished_signal, history>>

\* The for loop has no entry left.
LoopExhausted ==
    /\ pc = "loop"
    /\ emitted' = NoEvent
    /\ idx = Len(note_ids)
    /\ pc' = "finish"
    /\ UNCHANGED <<static, position, counters, streaks, session, is_cancelled, call,
                   result, finished_signal, history>>

\* if self.is_cancelled: log, break
LoopCancelled ==
    /\ pc = "loop"
    /\ emitted' = <<Log("cancelled")>>
    /\ idx < Len(note_ids)
    /\ is_cancelled
    /\ pc' = "finish"
    /\ UNCHANGED <<static, position, counters, streaks, session, is_cancelled, call,
                   result, finished_signal, history>>

\* Mutant: the abort path returns without emitting the summary.
LoopAbort_NoSummary ==
    /\ pc = "loop"
    /\ emitted' = <<Log("abort")>>
    /\ idx < Len(note_ids)
    /\ ~is_cancelled
    /\ ThresholdReached
    /\ pc' = "done"
    /\ UNCHANGED <<static, position, counters, streaks, session, is_cancelled, call,
                   result, finished_signal, history>>

\* if consecutive_errors >= 5: log, break
LoopAbort ==
    /\ pc = "loop"
    /\ emitted' = <<Log("abort")>>
    /\ idx < Len(note_ids)
    /\ ~is_cancelled
    /\ ThresholdReached
    /\ pc' = "finish"
    /\ UNCHANGED <<static, position, counters, streaks, session, is_cancelled, call,
                   result, finished_signal, history>>

\* The Worker posts get_note_basic to the owner context and waits.
LoopNext ==
    /\ pc = "loop"
    /\ emitted' = NoEvent
    /\ idx < Len(note_ids)
    /\ ~is_cancelled
    /\ ~ThresholdReached
    /\ pc' = "read"
    /\ UNCHANGED <<static, position, counters, streaks, session, is_cancelled, call,
                   result, finished_signal, history>>

\* Mutant: the loop moves on by two entries.
EndRecord_SkipsOne ==
    /\ idx' = idx + 2
    /\ model_name' = ""
    /\ mi' = 0
    /\ delay_left' = 0
    /\ pc' = "loop"

\* The Worker is through with the list entry and takes the next one.
EndRecord ==
    /\ idx' = idx + 1
    /\ model_name' = ""
    /\ mi' = 0
    /\ delay_left' = 0
    /\ pc' = "loop"

\* Mutant: a record that cannot be read is counted as a failed operation.
ReadFailed_CountedFailed ==
    /\ pc = "read"
    /\ emitted' = VerboseLog("note_skipped")
    /\ EndRecord
    /\ waited' = 0
    /\ failed_ops' = failed_ops + 1
    /\ UNCHANGED <<inputs, success_ops, skipped_ops, consecutive_errors, streaks,
                   session, is_cancelled, call, result, finished_signal, history>>

\* The read timed out, raised, or the record no longer exists: note_obj is None.
ReadFailed ==
    /\ pc = "read"
    /\ emitted' = VerboseLog("note_skipped")
    /\ EndRecord
    /\ waited' = 0
    /\ UNCHANGED <<inputs, counters, streaks, session, is_cancelled, call, result,
                   finished_signal, history>>

\* The wait for the read ran out: TimeoutError, caught by the bare except.
ReadTimeout ==
    /\ waited = MaxWait
    /\ ReadFailed

\* _run_on_main_sync: one more tick of event.wait(timeout=30) passes and the
\* owner context has not completed the call.  The wait looks at the event
\* only, not at is_cancelled.
MainWaitTick ==
    /\ pc \in {"read", "save"}
    /\ emitted' = NoEvent
    /\ waited < MaxWait
    /\ waited' = waited + 1
    /\ UNCHANGED <<inputs, pc, position, counters, streaks, session, is_cancelled,
                   call, result, finished_signal, history>>

\* The read returned the record and its type name t.
ReadOk(t) ==
    /\ pc = "read"
    /\ emitted' = NoEvent
    /\ success_ops + failed_ops + skipped_ops + Len(note_type_map(t)) <= MaxOps
    /\ IF note_type_map(t) = <<>>
       THEN \* continue: model_name keeps the type until the next read
            /\ idx' = idx + 1
            /\ model_name' = t
            /\ mi' = 0
            /\ delay_left' = 0
            /\ pc' = "loop"
       ELSE /\ model_name' = t
            /\ mi' = 1
            /\ pc' = "map"
            /\ UNCHANGED <<idx, delay_left>>
    /\ waited' = 0
    /\ UNCHANGED <<inputs, counters, streaks, session, is_cancelled, call, result,
                   finished_signal, history>>

(***************************************************************************)
(* TTSWorker.run: the mapping loop.                                        *)
(***************************************************************************)
configs == note_type_map(model_name)

\* int(request_wait * 10), request_wait in milliseconds here.
DelayTicks == (config.request_wait * TicksPerSecond) \div 1000

NextMapping ==
    /\ mi' = mi + 1
    /\ pc' = "map"
    /\ UNCHANGED <<idx, model_name, delay_left>>

\* for map_cfg in configs: no mapping left.
MapDone ==
    /\ pc = "map"
    /\ mi > Len(configs)
    /\ EndRecord
    /\ UNCHANGED <<static, counters, streaks, session, is_cancelled, call, result,
                   finished_signal, history>>
    /\ emitted' = <<Progress("Waiting...")>>

\* if self.is_cancelled: break
MapCancelled ==
    /\ pc = "map"
    /\ mi <= Len(configs)
    /\ is_cancelled
    /\ EndRecord
    /\ UNCHANGED <<static, counters, streaks, session, is_cancelled, call, result,
                   finished_signal, history>>
    /\ emitted' = <<Progress("Waiting...")>>

\* Mutant: a missing source field is counted without a log line.
MapLog_SilentMissing(view) ==
    IF ~view.has_src
    THEN NoEvent
    ELSE IF config.skip_existing_audio /\ view.tgt_sound
    THEN VerboseLog("skipped_audio_exists")
    ELSE IF CleanText(view.text) = <<>>
    THEN VerboseLog("skipped_empty_text")
    ELSE NoEvent

\* The log events of one mapping up to the inter-request delay.
MapLog(view) ==
    IF ~view.has_src
    THEN <<Log("field_missing")>>
    ELSE IF config.skip_existing_audio /\ view.tgt_sound
    THEN VerboseLog("skipped_audio_exists")
    ELSE IF CleanText(view.text) = <<>>
    THEN VerboseLog("skipped_empty_text")
    ELSE NoEvent

\* The progress event of a mapping skipped for the audio its target holds.
MapProgress(view) ==
    IF view.has_src /\ config.skip_existing_audio /\ view.tgt_sound
    THEN <<Progress("Skipping...")>>
    ELSE NoEvent

\* One mapping up to the inter-request delay, on what the record holds.
MapStep(view) ==
    /\ pc = "map"
    /\ mi <= Len(configs)
    /\ ~is_cancelled
    /\ IF ~view.has_src
       THEN Count("missing") /\ NextMapping
       ELSE IF config.skip_existing_audio /\ view.tgt_sound
       THEN Count("skipped") /\ NextMapping
       ELSE IF CleanText(view.text) = <<>>
       THEN Count("skipped") /\ NextMapping
       ELSE /\ IF config.request_wait > 0 /\ DelayTicks > 0
               THEN pc' = "delay" /\ delay_left' = DelayTicks
               ELSE pc' = "post_delay" /\ delay_left' = 0
            /\ UNCHANGED <<idx, model_name, mi, counters, streaks>>
    /\ UNCHANGED <<static, session, is_cancelled, call, result, finished_signal,
                   history>>
    /\ emitted' = MapLog(view) \o MapProgress(view)

\* for _ in range(...): if self.is_cancelled: break; time.sleep(0.1)
DelayTick ==
    /\ pc = "delay"
    /\ emitted' = NoEvent
    /\ IF is_cancelled
       THEN pc' = "post_delay" /\ delay_left' = 0
       ELSE /\ delay_left' = delay_left - 1
            /\ pc' = IF delay_left = 1 THEN "post_delay" ELSE "delay"
    /\ UNCHANGED <<static, idx, model_name, mi, counters, streaks, session,
                   is_cancelled, call, result, finished_signal, history>>

\* generate_audio starts for model `ph`: usage_stats is fresh, attempt is 0.
StartGenerateAudio(ph) ==
    /\ phase' = ph
    /\ attempt' = 0
    /\ audio_chunks' = FALSE
    /\ usage_stats' = ZeroUsage
    /\ backoff_left' = 0
    /\ nchunks' = 0
    /\ sent' = 0
    /\ pc' = "attempt"

\* Mutant: the cancel check after the delay loop is missing.
PostDelay_NoCancelCheck ==
    /\ pc = "post_delay"
    /\ StartGenerateAudio("primary")
    /\ last_error' = ""
    /\ ga_exit' = "none"
    /\ UNCHANGED <<position, n_audio_results, only_generic>>
    /\ UNCHANGED <<static, counters, streaks, session, is_cancelled, result,
                   finished_signal>>
    /\ emitted' = <<Progress("Generating")>>

\* if self.is_cancelled: break; else the progress event and the orchestrator call.
PostDelay ==
    /\ pc = "post_delay"
    /\ IF is_cancelled
       THEN /\ EndRecord
            /\ UNCHANGED <<call, history>>
       ELSE /\ StartGenerateAudio("primary")
            /\ last_error' = ""
            /\ ga_exit' = "none"
            /\ UNCHANGED <<position, n_audio_results, only_generic>>
    /\ UNCHANGED <<static, counters, streaks, session, is_cancelled, result,
                   finished_signal>>
    /\ emitted' = <<Progress(IF is_cancelled THEN "Waiting..." ELSE "Generating")>>

(***************************************************************************)
(* TTSProcessor.generate_with_fallback: what it does with the outcome of   *)
(* a generate_audio call.                                                  *)
(***************************************************************************)
\* Mutant: every audio result carries the primary model's name.
ModelTag_AlwaysPrimary == config.primary_model

ModelTag == IF phase = "primary" THEN config.primary_model ELSE config.fallback_model

NoAudioText == IF phase = "primary" THEN "No audio generated"
               ELSE "Fallback model: No audio generated"

\* The except clauses that end the two try blocks.
PrimaryExcept  == "Exception"

\* Mutant: the inner except clause catches rate-limit errors only.
FallbackExcept_OnlyRateLimit == "RateLimitError"

FallbackExcept == "Exception"

\* The Worker receives res (or, with raised, the exception that escaped).
\* generate_audio is left: its locals are gone.
LeaveGenerateAudio ==
    /\ attempt' = 0
    /\ audio_chunks' = FALSE
    /\ usage_stats' = ZeroUsage
    /\ backoff_left' = 0
    /\ nchunks' = 0
    /\ sent' = 0

Deliver(res) ==
    /\ result' = res
    /\ n_audio_results' = IF res.audio THEN n_audio_results + 1 ELSE n_audio_results
    /\ pc' = "result"
    /\ phase' = "none"
    /\ LeaveGenerateAudio

\* generate_audio returned (audio, usage_stats).
\* Mutant: a call that ends without audio of its own hands over the audio
\* the stream has yielded so far.
Returned_KeepsAudio(audio, exit) ==
    /\ ga_exit' = exit
    /\ Deliver([audio |-> audio \/ audio_chunks,
                info |-> IF audio \/ audio_chunks THEN ModelTag ELSE NoAudioText,
                stats |-> usage_stats, raised |-> FALSE])

Returned(audio, exit) ==
    /\ ga_exit' = exit
    /\ Deliver([audio |-> audio, info |-> IF audio THEN ModelTag ELSE NoAudioText,
                stats |-> usage_stats, raised |-> FALSE])

\* Mutant: the answer to a caught exception carries the usage read so far.
ErrorTriple_KeepsUsage(e) ==
    [audio |-> FALSE, info |-> e.msg, stats |-> usage_stats, raised |-> FALSE]

\* The orchestrator's answer to a caught exception: (None, str(e), {}).
ErrorTriple(e) ==
    [audio |-> FALSE, info |-> e.msg, stats |-> EmptyStats, raised |-> FALSE]

\* The exception left generate_with_fallback: the Worker's own except clause
\* keeps its text, audio_data stays None and stats stays {}.
Escaped(e) ==
    [audio |-> FALSE, info |-> e.msg, stats |-> EmptyStats, raised |-> TRUE]

\* generate_audio raised e.
Raised(e, exit) ==
    /\ ga_exit' = exit
    /\ IF phase = "primary"
       THEN IF IsInstance(e, "RateLimitError")
            THEN IF config.enable_fallback
                 THEN \* if check_cancel and not check_cancel(): time.sleep(1)
                      /\ pc' = IF is_cancelled THEN "attempt" ELSE "fb_sleep"
                      /\ phase' = "fallback"
                      /\ LeaveGenerateAudio
                      /\ UNCHANGED <<result, n_audio_results>>
                 ELSE Deliver(ErrorTriple(e))
            ELSE IF IsInstance(e, PrimaryExcept)
                 THEN Deliver(ErrorTriple(e))
                 ELSE Deliver(Escaped(e))
       ELSE IF IsInstance(e, FallbackExcept)
            THEN Deliver(ErrorTriple(e))
            ELSE Deliver(Escaped(e))

\* time.sleep(1) is over: the fallback model's generate_audio call starts.
FallbackSleep ==
    /\ pc = "fb_sleep"
    /\ emitted' = NoEvent
    /\ pc' = "attempt"
    /\ UNCHANGED <<static, position, counters, streaks, session, is_cancelled, call,
                   result, finished_signal, history>>

(***************************************************************************)
(* TTSProcessor.generate_audio.                                            *)
(***************************************************************************)
\* Mutant: the wait does not grow with the attempt number.
BackoffTicks_Constant == config.retry_delay * TicksPerSecond

\* wait_sec * 10, wait_sec = retry_delay * (attempt + 1)
BackoffTicks == config.retry_delay * (attempt + 1) * TicksPerSecond

\* attempt < max_retries - 1
MayRetry == attempt < config.retry_attempts - 1

\* for attempt in range(max_retries): the cancel check, then the request.
AttemptStart ==
    /\ pc = "attempt"
    /\ emitted' = NoEvent
    /\ IF attempt >= config.retry_attempts
       THEN Returned(FALSE, "loop_end")
       ELSE IF is_cancelled
       THEN Returned(FALSE, "cancel_pre")
       ELSE /\ pc' = "stream"
            /\ audio_chunks' = FALSE
            /\ nchunks' = 0
            /\ sent' = sent + 1
            /\ UNCHANGED <<phase, attempt, usage_stats, backoff_left, result, ga_exit,
                           n_audio_results>>
    /\ last_error' = IF pc' = "stream" THEN "" ELSE last_error
    /\ UNCHANGED <<static, position, counters, streaks, session, is_cancelled,
                   finished_signal, only_generic>>

\* Mutant: the loop over the stream does not look at the cancel flag.
StreamChunk_NoCancelCheck(c) ==
    /\ pc = "stream"
    /\ emitted' = NoEvent
    /\ nchunks < MaxChunks
    /\ transport = "stub" => (c.audio /\ c.usage)
    /\ usage_stats' = IF c.usage THEN ChunkUsage ELSE usage_stats
    /\ audio_chunks' = (audio_chunks \/ c.audio)
    /\ nchunks' = nchunks + 1
    /\ UNCHANGED <<pc, phase, attempt, backoff_left, sent, result, ga_exit,
                   n_audio_results>>
    /\ only_generic' = FALSE
    /\ UNCHANGED <<static, position, counters, streaks, session, is_cancelled,
                   last_error, finished_signal>>

\* The stream yields chunk c: the cancel check, then usage and payload.
StreamChunk(c) ==
    /\ pc = "stream"
    /\ emitted' = NoEvent
    /\ nchunks < MaxChunks
    /\ transport = "stub" => (c.audio /\ c.usage)
    /\ IF is_cancelled
       THEN Returned(FALSE, "cancel_chunk")
       ELSE /\ usage_stats' = IF c.usage THEN ChunkUsage ELSE usage_stats
            /\ audio_chunks' = (audio_chunks \/ c.audio)
            /\ nchunks' = nchunks + 1
            /\ UNCHANGED <<pc, phase, attempt, backoff_left, sent, result, ga_exit,
                           n_audio_results>>
    /\ only_generic' = FALSE
    /\ UNCHANGED <<static, position, counters, streaks, session, is_cancelled,
                   last_error, finished_signal>>

\* Mutant: a rate-limit error is treated like a transient one and retried.
Handle_RetriesRateLimit(e) ==
    /\ IF is_cancelled
       THEN Returned(FALSE, "cancel_handler")
       ELSE IF (IsRetryable(e) \/ IsRateLimit(e)) /\ MayRetry
       THEN /\ IF BackoffTicks > 0
               THEN pc' = "backoff" /\ backoff_left' = BackoffTicks /\ attempt' = attempt
               ELSE pc' = "attempt" /\ backoff_left' = 0 /\ attempt' = attempt + 1
            /\ UNCHANGED <<phase, audio_chunks, usage_stats, nchunks, sent, result,
                           ga_exit, n_audio_results>>
       ELSE IF IsRateLimit(e)
       THEN Raised(RateLimitError(e.msg), "rate")
       ELSE IF IsInstance(e, "EmptyResponseError")
       THEN Returned(FALSE, "empty_exhausted")
       ELSE Raised(TransportError(e.msg), "generic")
    /\ last_error' = e.msg

\* Mutant: the except clause classifies the error before it looks at the
\* cancel flag.
Handle_ClassifiesFirst(e) ==
    /\ IF IsRateLimit(e)
       THEN Raised(RateLimitError(e.msg), "rate")
       ELSE IF is_cancelled
       THEN Returned(FALSE, "cancel_handler")
       ELSE IF IsRetryable(e) /\ MayRetry
       THEN /\ IF BackoffTicks > 0
               THEN pc' = "backoff" /\ backoff_left' = BackoffTicks /\ attempt' = attempt
               ELSE pc' = "attempt" /\ backoff_left' = 0 /\ attempt' = attempt + 1
            /\ UNCHANGED <<phase, audio_chunks, usage_stats, nchunks, sent, result,
                           ga_exit, n_audio_results>>
       ELSE IF IsInstance(e, "EmptyResponseError")
       THEN Returned(FALSE, "empty_exhausted")
       ELSE Raised(TransportError(e.msg), "generic")
    /\ last_error' = e.msg

\* The except clause of generate_audio, on exception e.
Handle(e) ==
    /\ IF is_cancelled
       THEN Returned(FALSE, "cancel_handler")
       ELSE IF IsRateLimit(e)
       THEN Raised(RateLimitError(e.msg), "rate")
       ELSE IF IsRetryable(e) /\ MayRetry
       THEN /\ IF BackoffTicks > 0
               THEN pc' = "backoff" /\ backoff_left' = BackoffTicks /\ attempt' = attempt
               ELSE pc' = "attempt" /\ backoff_left' = 0 /\ attempt' = attempt + 1
            /\ UNCHANGED <<phase, audio_chunks, usage_stats, nchunks, sent, result,
                           ga_exit, n_audio_results>>
       ELSE IF IsInstance(e, "EmptyResponseError")
       THEN Returned(FALSE, "empty_exhausted")
       ELSE Raised(TransportError(e.msg), "generic")
    /\ last_error' = e.msg

\* The stream ends without an error.
StreamEnd ==
    /\ pc = "stream"
    /\ emitted' = NoEvent
    /\ transport = "stub" => nchunks > 0
    /\ IF audio_chunks
       THEN Returned(TRUE, "audio") /\ UNCHANGED last_error
       ELSE IF config.retry_on_empty
       THEN Handle(EmptyResponseError)
       ELSE Returned(FALSE, "empty") /\ UNCHANGED last_error
    /\ only_generic' = FALSE
    /\ UNCHANGED <<static, position, counters, streaks, session, is_cancelled,
                   finished_signal>>

\* The transport raises an error with text msg.
StreamError(msg) ==
    /\ pc = "stream"
    /\ emitted' = NoEvent
    /\ transport = "stub" => nchunks = 0
    /\ Handle(TransportError(msg))
    /\ only_generic' = (only_generic /\ Signatures(msg) = {})
    /\ UNCHANGED <<static, position, counters, streaks, session, is_cancelled,
                   finished_signal>>

\* for _ in range(wait_sec * 10): the cancel check, then time.sleep(0.1)
BackoffTick ==
    /\ pc = "backoff"
    /\ emitted' = NoEvent
    /\ IF is_cancelled
       THEN Returned(FALSE, "cancel_backoff")
       ELSE /\ backoff_left' = backoff_left - 1
            /\ pc' = IF backoff_left = 1 THEN "attempt" ELSE "backoff"
            /\ attempt' = IF backoff_left = 1 THEN attempt + 1 ELSE attempt
            /\ UNCHANGED <<phase, audio_chunks, usage_stats, nchunks, sent, result,
                           ga_exit, n_audio_results>>
    /\ UNCHANGED <<static, position, counters, streaks, session, is_cancelled,
                   last_error, finished_signal, only_generic>>

(***************************************************************************)
(* TTSWorker.run: after the orchestrator call.                             *)
(***************************************************************************)
\* Mutant: a request is counted whenever usage statistics came back.
CountsRequest_AnyStats(res) == res.stats.present

\* if stats: ... if audio_data: self.total_requests += 1
CountsRequest(res) == res.stats.present /\ res.audio

HandleResult ==
    /\ pc = "result"
    /\ total_input_tokens' = IF result.stats.present
                             THEN total_input_tokens + result.stats.input_tokens
                             ELSE total_input_tokens
    /\ total_output_tokens' = IF result.stats.present
                              THEN total_output_tokens + result.stats.output_tokens
                              ELSE total_output_tokens
    /\ total_requests' = IF CountsRequest(result) THEN total_requests + 1
                         ELSE total_requests
    /\ IF result.audio
       THEN /\ Count("audio")
            /\ pc' = "save"
            /\ UNCHANGED <<position, result>>
       ELSE /\ Count("synth_failed")
            /\ NextMapping
            /\ result' = NoResult
    /\ ga_exit' = "none"
    /\ last_error' = ""
    /\ UNCHANGED <<static, is_cancelled, phase, attempt, audio_chunks, usage_stats,
                   backoff_left, nchunks, sent, finished_signal, n_audio_results,
                   only_generic>>
    /\ emitted' = (IF result.stats.present THEN <<Usage>> ELSE NoEvent)
                     \o (IF result.audio THEN NoEvent ELSE <<Log("synthesis_failed")>>)

\* The marshalled save_result: "saved" is (True, filename), "note_deleted" is
\* (False, "Note deleted"), "raised" is an exception of save_result, "timed_out"
\* is the TimeoutError of _run_on_main_sync after 30 s.
SaveOutcomes == {"saved", "note_deleted", "raised", "timed_out"}

\* Mutant: the timeout of the save is not logged.
SaveLog_SilentTimeout(outcome) ==
    IF outcome = "timed_out" THEN NoEvent
    ELSE <<Log(CASE outcome = "saved" -> "success"
                 [] outcome = "note_deleted" -> "save_error"
                 [] OTHER -> "save_future_error")>>

\* Success, "Save Error - Note deleted", or "Save Future Error - <str(e)>".
SaveLog(outcome) ==
    <<Log(CASE outcome = "saved" -> "success"
            [] outcome = "note_deleted" -> "save_error"
            [] outcome = "raised" -> "save_future_error"
            [] OTHER -> "save_future_error_timed_out")>>

Save(outcome) ==
    /\ pc = "save"
    /\ outcome = "timed_out" => waited = MaxWait
    /\ emitted' = SaveLog(outcome)
    /\ IF outcome = "saved" THEN Count("success") ELSE Count("save_failed")
    /\ NextMapping
    /\ result' = NoResult
    /\ waited' = 0
    /\ UNCHANGED <<inputs, session, is_cancelled, call, finished_signal, history>>

\* The summary and finished_signal.emit(summary, final_stats).
Finish ==
    /\ pc = "finish"
    /\ emitted' = NoEvent
    /\ finished_signal' = Append(finished_signal,
           [ success |-> success_ops, skipped |-> skipped_ops, failed |-> failed_ops,
             requests |-> total_requests, input_tokens |-> total_input_tokens,
             output_tokens |-> total_output_tokens ])
    /\ pc' = "done"
    /\ UNCHANGED <<static, position, counters, streaks, session, is_cancelled, call,
                   result, history>>

(***************************************************************************)
(* BatchTTSHandler.on_cancel, in the owner context.                        *)
(***************************************************************************)
Cancel ==
    /\ pc # "done"
    /\ ~is_cancelled
    /\ is_cancelled' = TRUE
    /\ UNCHANGED <<static, pc, position, counters, streaks, session, call, result,
                   finished_signal, history, emitted>>

(***************************************************************************)
(* BatchTTSHandler: start and on_finished, in the owner context.  The run  *)
(* of the Worker is one step here: it ends with finished_signal carrying   *)
(* final_stats.                                                            *)
(***************************************************************************)
outside_encoder ==
    <<config, note_ids, transport, handler, pc, position, counters, streaks,
      session, is_cancelled, call, result, finished_signal, history, emitted,
      note_text, waited, store, owner>>

worker_vars == <<config, note_ids, transport, pc, position, counters, streaks,
                 session, is_cancelled, call, result, finished_signal, history,
                 emitted, note_text, encoder, waited, store, owner>>

\* not api_key or not note_type_configs
NeedsConfig(p) == p.api_key # "key" \/ ~p.mappings

\* TTSProcessor, ProgressDialog and TTSWorker are constructed; worker.start().
StartWorker ==
    /\ worker' = "running"
    /\ handler_pc' = "running"

\* ConfigDialog.__init__ puts a default Profile into an empty profiles object
\* of the configuration it is given.
DialogOpened(cfg) ==
    IF cfg.shape = "flat_empty_profiles"
    THEN [shape |-> "profiles", profile |-> get_default_config]
    ELSE cfg

start ==
    /\ handler_pc = "constructed"
    /\ IF NeedsConfig(active_config)
       THEN /\ handler_pc' = "dialog"
            /\ global_config' = DialogOpened(global_config)
            /\ UNCHANGED worker
       ELSE /\ StartWorker
            /\ UNCHANGED global_config
    /\ UNCHANGED <<worker_vars, stored_config, active_config, session_stats>>

\* dialog.exec() is rejected.
DialogReject ==
    /\ handler_pc = "dialog"
    /\ handler_pc' = "returned"
    /\ UNCHANGED <<worker_vars, stored_config, global_config, active_config, worker,
                   session_stats>>

\* dialog.exec() is accepted with API key `key` and a mapping list that is
\* non-empty iff `mappings`: get_config, writeConfig, __init__ again, and the
\* check of the key.
DialogAccept(key, mappings) ==
    /\ handler_pc = "dialog"
    /\ LET base == global_config.profile
           kept == IF base.stats.present THEN base.stats ELSE Stats(0, 0, 0)
           cfg  == [shape |-> "profiles",
                    profile |-> ProfileObject(key, mappings, kept)]
       IN  /\ global_config' = cfg
           /\ stored_config' = cfg
           /\ active_config' = ResolveActive(cfg)
    /\ IF active_config'.api_key # "key"
       THEN handler_pc' = "returned" /\ UNCHANGED worker
       ELSE StartWorker
    /\ UNCHANGED <<worker_vars, session_stats>>

\* The Worker's run ends: finished_signal.emit(summary, final_stats).
WorkerFinishes(final_stats) ==
    /\ handler_pc = "running"
    /\ worker = "running"
    /\ worker' = "finished"
    /\ session_stats' = final_stats
    /\ handler_pc' = "signalled"
    /\ UNCHANGED <<worker_vars, stored_config, global_config, active_config>>

\* current_stats[...] = current_stats.get(..., 0) + session_stats[...]
MergedStats(p, s) ==
    LET cur == IF p.stats.present THEN p.stats ELSE Stats(0, 0, 0)
    IN  Stats(cur.requests + s.requests, cur.input_tokens + s.input_tokens,
              cur.output_tokens + s.output_tokens)

\* writeConfig serialises cfg; a cyclic object cannot be serialised.
writeConfig(cfg) ==
    IF cfg.shape = "cyclic"
    THEN stored_config' = stored_config /\ handler_pc' = "raised"
    ELSE stored_config' = cfg /\ handler_pc' = "finished"

on_finished ==
    /\ handler_pc = "signalled"
    /\ active_config' = [active_config EXCEPT !.stats = MergedStats(active_config, session_stats)]
    /\ global_config' =
          [ shape   |-> IF global_config.shape = "flat_empty_profiles"
                        THEN "cyclic" ELSE "profiles",
            profile |-> active_config' ]
    /\ writeConfig(global_config')
    /\ UNCHANGED <<worker_vars, worker, session_stats>>

\* The Handler is constructed on what the add-on manager holds.
HandlerInit ==
    /\ WorkerStart(<<"stub", Profile(TRUE, 1, 1, FALSE, 0, TRUE, FALSE), 0>>)
    /\ stored_config \in StoredConfigs
    /\ global_config = stored_config
    /\ active_config = ResolveActive(stored_config)
    /\ worker = "none"
    /\ handler_pc = "constructed"
    /\ session_stats = NoStats
    /\ note_text = <<>>
    /\ EncoderIdle
    /\ StoreIdle
    /\ OwnerIdle

HandlerNext ==
    \/ start
    \/ DialogReject
    \/ \E key \in {"", "key"}, mappings \in BOOLEAN : DialogAccept(key, mappings)
    \/ \E final_stats \in SessionStats : WorkerFinishes(final_stats)
    \/ on_finished

HandlerSpec == HandlerInit /\ [][HandlerNext]_vars

(***************************************************************************)
(* Specifications.                                                         *)
(***************************************************************************)
WorkerNext ==
    \/ LoopExhausted
    \/ LoopCancelled
    \/ LoopAbort
    \/ LoopNext
    \/ MainWaitTick
    \/ ReadFailed
    \/ ReadTimeout
    \/ \E t \in NoteTypes : ReadOk(t)
    \/ MapDone
    \/ MapCancelled
    \/ \E view \in NoteViews : MapStep(view)
    \/ DelayTick
    \/ PostDelay
    \/ AttemptStart
    \/ \E c \in Chunks : StreamChunk(c)
    \/ StreamEnd
    \/ \E msg \in ErrorTexts : StreamError(msg)
    \/ BackoffTick
    \/ FallbackSleep
    \/ HandleResult
    \/ \E outcome \in SaveOutcomes : Save(outcome)
    \/ Finish

Next == WorkerNext \/ Cancel

(***************************************************************************)
(* Text batches: one record of type Basic whose source field holds         *)
(* note_text; the Worker is followed up to the end of the mapping loop or  *)
(* to the point where it would call the orchestrator.                      *)
(***************************************************************************)
TextProfiles == { Profile(TRUE, 1, 1, FALSE, 0, sk, vb) : sk \in BOOLEAN, vb \in BOOLEAN }

TextInit ==
    /\ \E p \in TextProfiles : WorkerStart(<<"live", p, 1>>)
    /\ HandlerRunning
    /\ note_text \in Texts
    /\ EncoderIdle
    /\ StoreIdle
    /\ OwnerIdle

\* The mapping step on the record of the text batch.
TextMapStep ==
    \E tgt_sound \in BOOLEAN :
        MapStep([has_src |-> TRUE, tgt_sound |-> tgt_sound, text |-> note_text])

TextNext ==
    \/ LoopNext
    \/ ReadOk("Basic")
    \/ TextMapStep
    \/ MapDone

TextSpec == TextInit /\ [][TextNext]_vars

(***************************************************************************)
(* Encoder runs: a payload and its descriptor are passed through           *)
(* convert_to_wav, or through the end of the stream in generate_audio, and *)
(* the result is passed through the same function once more.               *)
(***************************************************************************)
EncoderInit ==
    /\ WorkerStart(<<"live", Profile(TRUE, 1, 1, FALSE, 0, TRUE, FALSE), 1>>)
    /\ HandlerRunning
    /\ note_text = <<>>
    /\ audio_data \in Payloads
    /\ mime_type \in Descriptors
    /\ mime_db \in MimeDbs
    /\ entry = "none"
    /\ outputs = <<>>
    /\ StoreIdle
    /\ OwnerIdle

\* The bytes the next application receives.
Input == IF outputs = <<>> THEN audio_data ELSE outputs[Len(outputs)].bytes

Applicable(fn) ==
    /\ entry \in {"none", fn}
    /\ Len(outputs) < 2
    /\ outputs # <<>> => ~outputs[Len(outputs)].raised

Convert ==
    /\ Applicable("convert_to_wav")
    /\ entry' = "convert_to_wav"
    /\ outputs' = Append(outputs, convert_to_wav(Input, mime_type))
    /\ UNCHANGED <<outside_encoder, audio_data, mime_type, mime_db>>

Generate ==
    /\ Applicable("generate_audio")
    /\ entry' = "generate_audio"
    /\ outputs' = Append(outputs, final_audio(Input, mime_type, mime_db))
    /\ UNCHANGED <<outside_encoder, audio_data, mime_type, mime_db>>

EncoderNext == Convert \/ Generate

EncoderSpec == EncoderInit /\ [][EncoderNext]_vars

(***************************************************************************)
(* Saves: save_result runs in the owner context, once per mapping that     *)
(* got audio; between two saves the clock may or may not have moved on,    *)
(* and the owner may delete a record.                                      *)
(***************************************************************************)
MediaInit ==
    /\ WorkerStart(<<"live", Profile(TRUE, 1, 1, FALSE, 0, TRUE, FALSE), 1>>)
    /\ HandlerRunning
    /\ note_text = <<>>
    /\ EncoderIdle
    /\ StoreIdle
    /\ OwnerIdle

outside_store ==
    <<config, note_ids, transport, handler, pc, position, counters, streaks,
      session, is_cancelled, call, result, finished_signal, history, emitted,
      note_text, waited, encoder, owner>>

\* mw.col.media.write_data(filename, data) returns the name the blob is stored
\* under; when the name is taken by another blob the store either replaces
\* that blob or stores the new one under a name of its own.
write_data(fname, data, replace) ==
    IF fname \in DOMAIN media /\ media[fname] # data /\ ~replace
    THEN fname \o <<"-", data>>
    ELSE fname

\* save_result(nid, t_field, data, tag): the blob is written, then the record
\* is fetched again and its target field is set to the generated filename.
save_result(nid, t_field, data, tag, replace) ==
    LET filename == GeneratedName(nid, now_ms)
        gone     == ~col_notes[nid].present
    IN  /\ media' = (write_data(filename, data, replace) :> data) @@ media
        /\ col_notes' =
              IF gone THEN col_notes
              ELSE [col_notes EXCEPT
                      ![nid].fields[t_field] = SoundTag(filename),
                      ![nid].tags = IF tag # "" THEN @ \cup {tag} ELSE @]
        /\ saves' = Append(saves, [nid |-> nid, t_field |-> t_field, data |-> data,
                                   filename |-> filename,
                                   previous |-> col_notes[nid].fields[t_field],
                                   returned |-> IF gone THEN <<FALSE, "Note deleted">>
                                                ELSE <<TRUE, filename>>])

\* A save of the batch, run in the owner context.
MediaSave(nid, t_field, data, tag, replace) ==
    /\ Len(saves) < MaxSaves
    /\ save_result(nid, t_field, data, tag, replace)
    /\ UNCHANGED <<outside_store, now_ms>>

\* A millisecond passes.
ClockTick ==
    /\ now_ms < MaxClock
    /\ now_ms' = now_ms + 1
    /\ UNCHANGED <<outside_store, media, col_notes, saves>>

\* The owner deletes a record while the batch runs.
NoteDeleted(nid) ==
    /\ col_notes[nid].present
    /\ col_notes' = [col_notes EXCEPT ![nid].present = FALSE]
    /\ UNCHANGED <<outside_store, now_ms, media, saves>>

MediaNext ==
    \/ \E nid \in RecordIds, t_field \in TargetFields, data \in Blobs,
          tag \in SuccessTags, replace \in BOOLEAN :
            MediaSave(nid, t_field, data, tag, replace)
    \/ ClockTick
    \/ \E nid \in RecordIds : NoteDeleted(nid)

MediaSpec == MediaInit /\ [][MediaNext]_vars

(***************************************************************************)
(* Marshalled calls: _run_on_main_sync hands a wrapper to the owner        *)
(* context and waits for its event; the owner context runs the wrappers    *)
(* in the order they were queued, and meanwhile edits the collection.      *)
(* The synthesis call is one step here: it returns audio.                  *)
(***************************************************************************)
\* Two enabled mappings of the type Basic; they may share the target field.
OwnerConfigs ==
    { [Profile(TRUE, 1, 1, FALSE, 0, TRUE, FALSE) EXCEPT !.note_type_configs =
         << [note_type |-> "Basic", source_field |-> "Front",
             target_field |-> "Audio", enabled |-> TRUE],
            [note_type |-> "Basic", source_field |-> "Back",
             target_field |-> tgt, enabled |-> TRUE] >>] : tgt \in TargetFields }

OwnerInit ==
    /\ \E cfg \in OwnerConfigs : WorkerStart(<<"stub", cfg, MaxRecords>>)
    /\ HandlerRunning
    /\ note_text = <<>>
    /\ EncoderIdle
    /\ StoreIdle
    /\ OwnerIdle

\* '[sound:' in note_obj[tgt]
HasSound(content) == \E i \in 1..Len(content) : content[i] = "[sound:"

\* get_note_basic came back with the Note: a copy of the record's fields as
\* they are in the collection now.  The wrapper ran after those queued before.
get_note_basic ==
    /\ pc = "read"
    /\ main_queue = <<>>
    /\ col_notes[note_ids[idx + 1]].present
    /\ note_obj' = col_notes[note_ids[idx + 1]].fields
    /\ model_name' = "Basic"
    /\ mi' = 1
    /\ pc' = "map"
    /\ waited' = 0
    /\ emitted' = NoEvent
    /\ UNCHANGED <<config, note_ids, transport, handler, note_text, encoder, store,
                   main_queue, container, idx, delay_left, counters, streaks,
                   session, is_cancelled, call, result, finished_signal, history>>

\* get_note_basic found no record.
NoteGone ==
    /\ pc = "read"
    /\ main_queue = <<>>
    /\ ~col_notes[note_ids[idx + 1]].present
    /\ ReadFailed

\* The checks of one mapping, on the fields of note_obj.
OwnerMapStep ==
    /\ pc = "map"
    /\ mi <= Len(configs)
    /\ MapStep([has_src |-> TRUE,
                tgt_sound |-> HasSound(note_obj[configs[mi].target_field]),
                text |-> <<"a">>])

\* generate_with_fallback returned audio; save_result is handed to the owner
\* context with the record, the target field and the audio bound to it.
AudioArrives(data) ==
    /\ pc = "post_delay"
    /\ Count("audio")
    /\ total_requests' = total_requests + 1
    /\ total_input_tokens' = total_input_tokens + ChunkUsage.input_tokens
    /\ total_output_tokens' = total_output_tokens + ChunkUsage.output_tokens
    /\ pc' = "save"
    /\ main_queue' = Append(main_queue,
           [nid |-> note_ids[idx + 1], t_field |-> configs[mi].target_field,
            data |-> data, tag |-> "tts_done"])
    /\ container' = NewContainer
    /\ emitted' = <<Usage>>
    /\ UNCHANGED <<config, note_ids, transport, handler, note_text, encoder, store,
                   note_obj, waited, position, is_cancelled, call, result,
                   finished_signal, history>>

\* The owner context runs the wrapper at the head of its queue.  The Worker
\* that queued it may have given up waiting: the wrapper runs all the same,
\* and its container is one nobody reads.
OwnerRuns(replace, raises) ==
    /\ main_queue # <<>>
    /\ LET job     == Head(main_queue)
           awaited == pc = "save" /\ ~container.event /\ Len(main_queue) = 1
       IN  /\ IF raises
              THEN UNCHANGED store
              ELSE /\ save_result(job.nid, job.t_field, job.data, job.tag, replace)
                   /\ UNCHANGED now_ms
           /\ container' =
                 IF ~awaited THEN container
                 ELSE [event |-> TRUE, error |-> raises,
                       result |-> IF raises THEN <<FALSE, "">>
                                  ELSE saves'[Len(saves')].returned]
    /\ main_queue' = Tail(main_queue)
    /\ UNCHANGED <<config, note_ids, transport, handler, note_text, encoder, note_obj,
                   waited, pc, position, counters, streaks, session, is_cancelled,
                   call, result, finished_signal, history, emitted>>

\* What _run_on_main_sync(save_result) hands the Worker.
Handed(outcome) ==
    CASE outcome = "timed_out"    -> ~container.event
      [] outcome = "raised"       -> container.event /\ container.error
      [] outcome = "saved"        -> container.event /\ ~container.error
                                        /\ container.result[1]
      [] outcome = "note_deleted" -> container.event /\ ~container.error
                                        /\ ~container.result[1]

\* The Worker leaves _run_on_main_sync(save_result) and counts the mapping.
SaveReturns(outcome) == Handed(outcome) /\ Save(outcome)

\* The owner puts a recording of their own into a target field.
OwnerAddsAudio(nid, f) ==
    /\ col_notes[nid].present
    /\ ~HasSound(col_notes[nid].fields[f])
    /\ col_notes' = [col_notes EXCEPT ![nid].fields[f] = SoundTag(<<"recorded.mp3">>)]
    /\ UNCHANGED <<outside_store, now_ms, media, saves>>

OwnerNext ==
    \/ LoopNext
    \/ LoopExhausted
    \/ get_note_basic
    \/ NoteGone
    \/ ReadTimeout
    \/ MainWaitTick
    \/ OwnerMapStep
    \/ \E data \in Blobs : AudioArrives(data)
    \/ \E replace \in BOOLEAN, raises \in BOOLEAN : OwnerRuns(replace, raises)
    \/ \E outcome \in SaveOutcomes : SaveReturns(outcome)
    \/ MapDone
    \/ Finish
    \/ \E nid \in RecordIds, f \in TargetFields : OwnerAddsAudio(nid, f)
    \/ \E nid \in RecordIds : NoteDeleted(nid)

OwnerSpec == OwnerInit /\ [][OwnerNext]_vars

Spec == Init /\ [][Next]_vars

\* The worker thread keeps running, the transport answers, and a marshalled call
\* completes or times out; nothing obliges the operator to cancel.
FairSpec == Spec /\ WF_vars(WorkerNext)

(***************************************************************************)
(* Claims.                                                                 *)
(***************************************************************************)
Summary == finished_signal[Len(finished_signal)]

SummaryMatchesCounters ==
    /\ Summary.success = success_ops
    /\ Summary.skipped = skipped_ops
    /\ Summary.failed = failed_ops

\* C1: every run of the Worker eventually emits the terminal summary event,
\* however it stopped, and the counts in the summary are the Worker's counters.
C1_SummaryEventuallyEmitted ==
    <>(pc = "done" /\ Len(finished_signal) = 1 /\ SummaryMatchesCounters)

\* A run that stopped by the consecutive-error abort has emitted its summary.
C1_Witness ==
    /\ pc = "done"
    /\ Len(finished_signal) = 1
    /\ ThresholdReached
    /\ ~is_cancelled
    /\ idx < Len(note_ids)

\* C2: with a synthesis client that always fails with a generic error, whatever
\* the record list and the mapping configuration, the batch halts with a failed
\* count in the summary of exactly 5 plus the failures counted before the
\* streak began.  (The streak is made of synthesis failures only: failed_ops
\* is the pre-streak count plus the consecutive synthesis failures.)
C2_FailedIsFivePlusPrior ==
    ( /\ pc = "done"
      /\ only_generic
      /\ consecutive_errors >= ErrorThreshold
      /\ failed_ops = pre_streak + consecutive_errors )
        => Summary.failed = ErrorThreshold + pre_streak

\* C3 as stated: five operations in a row counted as failed, whatever the
\* reason of each, stop the batch: no further record is read.
C3_AnyFiveFailuresStop == (pc = "read") => failed_run < ErrorThreshold

\* C3: when the Worker reaches the next record with five synthesis failures
\* counted and no audio-bearing result between them, the batch stops early: no
\* further record is read.
C3_FiveSynthesisFailuresStop == (pc = "read") => consecutive_errors < ErrorThreshold

\* The batch stopped on the breaker with records left in the list.
C3_Witness ==
    /\ pc = "finish"
    /\ consecutive_errors >= ErrorThreshold
    /\ ~is_cancelled
    /\ idx < Len(note_ids)

\* C4: with the cancel flag set during the inter-request delay of a mapping,
\* the Worker leaves the delay at its next tick, then leaves the mapping loop
\* and the record loop without a synthesis call, and no operation, request or
\* consecutive-error counter changes.
C4_CancelDuringDelay ==
    [][ /\ (pc = "delay" /\ is_cancelled) =>
              (pc' = "post_delay" /\ UNCHANGED <<counters, session, sent, mi>>)
        /\ (pc = "post_delay" /\ is_cancelled) =>
              (pc' = "loop" /\ UNCHANGED <<counters, session, sent>>)
        /\ (pc = "loop" /\ is_cancelled) =>
              (pc' = "finish" /\ UNCHANGED <<counters, session, sent>>) ]_vars

\* The flag is set while ticks of the delay remain, after one has elapsed.
C4_Witness ==
    /\ pc = "delay"
    /\ is_cancelled
    /\ delay_left >= 1
    /\ delay_left < DelayTicks

\* The cancel flag made generate_audio return.
CancelExits == {"cancel_pre", "cancel_chunk", "cancel_handler", "cancel_backoff"}

\* C5 as stated: a cancel request that arrives while the synthesis call is in
\* flight does not change the outcome of the mapping: the call is never ended
\* by the cancel flag once its request is sent.
C5_CancelInFlightIgnored ==
    [][ (pc \in {"stream", "backoff"} /\ is_cancelled) => ga_exit' \notin CancelExits ]_vars

\* C5: a cancel flag that generate_audio observes (before an attempt, between
\* chunks, in the except clause, at a backoff tick) ends the call without
\* audio, and the mapping is counted as failed; with the flag set, audio comes
\* back only from a stream that ended normally after its chunks were consumed,
\* and then the result is handled as without cancel: the save runs, the
\* mapping is counted once, and the cancel is honoured at the next mapping.
C5_CancelObservedInsideCall ==
    [][ /\ (pc \in {"attempt", "stream", "backoff"} /\ is_cancelled) =>
              /\ pc' = "result"
              /\ result'.audio => (pc = "stream" /\ audio_chunks /\ ga_exit' = "audio")
              /\ ~result'.audio =>
                    (ga_exit' \in CancelExits \/ (pc = "stream" /\ ga_exit' = "empty"))
        /\ (pc = "result" /\ ga_exit \in CancelExits) =>
              /\ ~result.audio
              /\ failed_ops' = failed_ops + 1
              /\ consecutive_errors' = consecutive_errors + 1
              /\ success_ops' = success_ops
              /\ pc' = "map"
        /\ (pc = "result" /\ result.audio /\ is_cancelled) =>
              (pc' = "save" /\ consecutive_errors' = 0)
        /\ (pc = "save" /\ is_cancelled /\ pc' # "save") =>
              /\ success_ops' + failed_ops' = success_ops + failed_ops + 1
              /\ pc' = "map"
        /\ (pc = "map" /\ is_cancelled) => pc' = "loop" ]_vars

\* The flag was seen between two chunks and the call came back without audio.
C5_Witness ==
    /\ pc = "result"
    /\ ga_exit = "cancel_chunk"
    /\ ~result.audio
    /\ is_cancelled

\* C6: every orchestrator call adds 1 to the session request counter if it
\* returned audio and 0 otherwise, whatever happened inside the call: the
\* counter equals the number of audio-bearing results handled so far (the
\* result the Worker holds but has not handled yet is not counted yet).
C6_RequestsCountAudioResults ==
    total_requests + (IF pc = "result" /\ result.audio THEN 1 ELSE 0) = n_audio_results

\* After a counted audio result, a call came back without audio but with
\* token usage.
C6_Witness ==
    /\ pc = "result"
    /\ ~result.audio
    /\ result.stats.present
    /\ result.stats.input_tokens > 0
    /\ total_requests >= 1

RateLimitText(msg) == Signatures(msg) \cap {"429", "resource_exhausted"} # {}

TransientText(msg) ==
    \/ Signatures(msg) \cap {"500", "503", "timeout"} # {}
    \/ msg = EmptyResponseText

InsideCall == pc \in {"attempt", "stream", "backoff", "fb_sleep"}

\* The fallback model's audio comes back under the fallback model's name,
\* nothing is counted while the call runs, and the Worker counts one request,
\* resets the consecutive-error counter and goes on to the save.
FallbackAudioReturnedAndHandled ==
    /\ (phase = "fallback" /\ pc = "stream" /\ pc' = "result" /\ result'.audio) =>
          /\ result'.info = config.fallback_model
          /\ result'.stats.present
          /\ ~result'.raised
    /\ InsideCall => UNCHANGED <<counters, session>>
    /\ ( /\ pc = "result"
         /\ result.audio
         /\ result.info = config.fallback_model
         /\ ~is_cancelled' ) =>
          /\ total_requests' = total_requests + 1
          /\ consecutive_errors' = 0
          /\ UNCHANGED <<success_ops, failed_ops, skipped_ops>>
          /\ pc' = "save"

FallbackAudioSaveStep ==
    /\ pc = "save"
    /\ result.info = config.fallback_model
    /\ ~is_cancelled'
    /\ pc' # pc

\* C7 as stated: after a rate-limited primary and a fallback that answers with
\* audio, with no cancel requested, the audio is tagged with the fallback
\* model's name and the Worker counts exactly one success and one request.
C7_FallbackCountsOneSuccess ==
    [][ /\ FallbackAudioReturnedAndHandled
        /\ FallbackAudioSaveStep =>
              /\ success_ops' = success_ops + 1
              /\ UNCHANGED <<failed_ops, skipped_ops, consecutive_errors, session>> ]_vars

\* C7: after a rate-limited primary and a fallback that answers with audio,
\* with no cancel requested, the audio is tagged with the fallback model's
\* name and the Worker counts one request and, at the save, exactly one
\* success or (the save failed) exactly one failure; the primary's attempt
\* adds nothing to the success, failed or consecutive-error counters.
C7_FallbackCountsOneOutcome ==
    [][ /\ FallbackAudioReturnedAndHandled
        /\ FallbackAudioSaveStep =>
              /\ \/ success_ops' = success_ops + 1 /\ failed_ops' = failed_ops
                 \/ success_ops' = success_ops /\ failed_ops' = failed_ops + 1
              /\ UNCHANGED <<skipped_ops, consecutive_errors, session>> ]_vars

\* The fallback model's audio is about to be saved and no cancel was requested.
C7_Witness ==
    /\ pc = "save"
    /\ result.audio
    /\ result.info = config.fallback_model
    /\ total_requests = 1
    /\ consecutive_errors = 0
    /\ ~is_cancelled

NoAudioTexts == {"No audio generated", "Fallback model: No audio generated"}

\* C8: generate_with_fallback never lets an exception escape: whatever ended
\* the primary or the fallback generate_audio call, the Worker receives a
\* triple; without audio its second element is the text of the error that was
\* raised (with empty usage), or the no-audio text when nothing was raised.
C8_NoExceptionEscapes ==
    pc = "result" =>
        /\ ~result.raised
        /\ ~result.audio =>
              IF ga_exit \in {"rate", "generic"}
              THEN result.info = last_error /\ last_error \in ErrorTexts
                   /\ result.stats = EmptyStats
              ELSE result.info \in NoAudioTexts

\* The fallback model itself was rate limited, and the call returned the text.
C8_Witness ==
    /\ pc = "result"
    /\ config.enable_fallback
    /\ ga_exit = "rate"
    /\ ~result.audio
    /\ RateLimitText(result.info)

\* C9: within one generate_with_fallback call a rate-limit error is never
\* retried in place: a request that follows a rate-limit error is the first
\* request of the fallback phase; a rate-limit error ends the call unless it
\* is the primary's and fallback is enabled, and then the call switches to the
\* fallback model; the call never switches for another reason or back.
C9_RateLimitNeverRetried ==
    [][ /\ (sent' = sent + 1 /\ RateLimitText(last_error)) =>
              (phase = "fallback" /\ sent = 0)
        /\ (pc = "stream" /\ RateLimitText(last_error')) =>
              \/ pc' = "result"
              \/ /\ phase = "primary"
                 /\ phase' = "fallback"
                 /\ config.enable_fallback
                 /\ pc' \in {"fb_sleep", "attempt"}
        /\ (phase = "primary" /\ phase' = "fallback") =>
              (config.enable_fallback /\ pc = "stream" /\ RateLimitText(last_error'))
        /\ phase = "fallback" => phase' \in {"fallback", "none"}
        /\ (phase = "fallback" /\ RateLimitText(last_error) /\ sent > 0) =>
              sent' \in {sent, 0} ]_vars

\* The fallback model's first request is out, after the primary's rate limit.
C9_Witness ==
    /\ phase = "fallback"
    /\ pc = "stream"
    /\ sent = 1
    /\ ga_exit = "rate"

\* The except clause of generate_audio has just handled a transient failure.
TransientHandled ==
    /\ pc = "stream"
    /\ last_error' # ""
    /\ TransientText(last_error')
    /\ ~RateLimitText(last_error')

\* On the last attempt there is no wait: a transport error becomes a generic
\* failure, an empty response returns (None, usage_stats).
LastAttemptOutcome ==
    /\ pc' = "result"
    /\ ~result'.audio
    /\ ~result'.raised
    /\ IF last_error' = EmptyResponseText
       THEN result'.info \in NoAudioTexts /\ result'.stats = usage_stats
       ELSE result'.info = last_error' /\ result'.stats = EmptyStats
            /\ ga_exit' = "generic"

\* One tick of the wait; the attempt number moves on with the last tick.
WaitTick ==
    /\ backoff_left' = backoff_left - 1
    /\ sent' = sent
    /\ IF backoff_left = 1
       THEN pc' = "attempt" /\ attempt' = attempt + 1
       ELSE pc' = "backoff" /\ attempt' = attempt

\* C10 as stated: at most max_retries requests per generate_audio call; a
\* transient failure on attempt k < max_retries - 1 is followed by a wait of
\* retry_delay * (k + 1) seconds and then by attempt k + 1; on the last
\* attempt there is no wait.
C10_TransientFailureWaitsThenRetries ==
    [][ /\ sent' <= config.retry_attempts
        /\ (TransientHandled /\ attempt < config.retry_attempts - 1) =>
              /\ pc' = "backoff"
              /\ backoff_left' = config.retry_delay * (attempt + 1) * TicksPerSecond
        /\ (TransientHandled /\ attempt >= config.retry_attempts - 1) =>
              LastAttemptOutcome
        /\ (pc = "backoff" /\ is_cancelled' = is_cancelled) => WaitTick
        /\ (pc = "attempt" /\ attempt > 0 /\ is_cancelled' = is_cancelled) =>
              (pc' = "stream" /\ sent' = sent + 1) ]_vars

\* C10: at most max_retries requests per generate_audio call; unless the
\* cancel flag is seen (in the except clause, at a tick of the wait, or before
\* the attempt), a transient failure on attempt k < max_retries - 1 is
\* followed by a wait of retry_delay * (k + 1) seconds and then by attempt
\* k + 1, and on the last attempt there is no wait; a cancel flag seen at one
\* of these points ends the call without audio.
C10_TransientFailureRetriesUnlessCancelled ==
    [][ /\ sent' <= config.retry_attempts
        /\ (TransientHandled /\ ~is_cancelled /\ attempt < config.retry_attempts - 1) =>
              /\ pc' = "backoff"
              /\ backoff_left' = config.retry_delay * (attempt + 1) * TicksPerSecond
              /\ sent' = sent
        /\ (TransientHandled /\ ~is_cancelled /\ attempt >= config.retry_attempts - 1) =>
              LastAttemptOutcome
        /\ (pc = "backoff" /\ ~is_cancelled /\ ~is_cancelled') => WaitTick
        /\ (pc = "attempt" /\ attempt > 0 /\ ~is_cancelled /\ ~is_cancelled') =>
              (pc' = "stream" /\ sent' = sent + 1)
        /\ ( /\ is_cancelled
             /\ \/ TransientHandled
                \/ pc \in {"backoff", "attempt"} ) =>
              (pc' = "result" /\ ~result'.audio /\ result'.info \in NoAudioTexts) ]_vars

\* The third request is out, after the waits that followed two failures.
C10_Witness ==
    /\ pc = "stream"
    /\ attempt = 2
    /\ sent = 3
    /\ config.retry_attempts = 3

\* The usage counters of the active Profile in configuration cfg.
PersistedCounters(cfg) ==
    IF cfg.profile.stats.present THEN cfg.profile.stats ELSE Stats(0, 0, 0)

\* C11: when the Worker has signalled completion, the Handler adds the
\* session's requests, input_tokens and output_tokens to the persisted
\* counters of the active Profile (new = previous + session, so nothing is
\* replaced and nothing decreases), and once on_finished is over the
\* persisted configuration does not change again.
C11_SessionAddedToPersisted ==
    [][ /\ (handler_pc = "signalled" /\ handler_pc' # "signalled") =>
              LET old == PersistedCounters(stored_config)
                  new == PersistedCounters(stored_config')
              IN  /\ new.requests = old.requests + session_stats.requests
                  /\ new.input_tokens = old.input_tokens + session_stats.input_tokens
                  /\ new.output_tokens = old.output_tokens + session_stats.output_tokens
        /\ handler_pc \in {"finished", "returned"} => stored_config' = stored_config ]_vars

\* C12: the Handler never starts a Worker for a Profile whose API key is
\* absent or whose mapping list is absent or empty, on any path through
\* start().
C12_WorkerOnlyWithKeyAndMappings ==
    worker # "none" => (active_config.api_key = "key" /\ active_config.mappings)

\* The log events among evs.
LogEvents(evs) == SelectSeq(evs, LAMBDA e : e.signal = "log_html_update")

\* The step counts the outcome of one mapping.
OutcomeCounted ==
    success_ops' + failed_ops' + skipped_ops' = success_ops + failed_ops + skipped_ops + 1

\* C13 as stated: every per-mapping outcome produces exactly one log event,
\* for every setting of the verbose-logging flag.
C13_OneLogPerOutcome ==
    [][ OutcomeCounted => Len(LogEvents(emitted')) = 1 ]_vars

\* C13: every per-mapping outcome counted as success or failed (missing
\* source field, success, save error, synthesis failure) produces exactly one
\* log event for every setting of the verbose-logging flag; a mapping counted
\* as skipped produces exactly one log event with verbose logging on and none
\* with verbose logging off.
C13_OneLogPerOutcomeSkipsWhenVerbose ==
    [][ OutcomeCounted =>
          Len(LogEvents(emitted')) =
              IF skipped_ops' = skipped_ops + 1 /\ ~config.verbose_logging THEN 0 ELSE 1 ]_vars

\* A mapping was skipped with verbose logging off, and nothing was logged.
C13_Witness ==
    /\ pc = "map"
    /\ mi = 2
    /\ skipped_ops = 1
    /\ failed_ops = 0
    /\ ~config.verbose_logging
    /\ emitted = <<>>

\* The Worker is busy with the record at list position idx + 1.
WorkingOnRecord == pc \in {"read", "map", "delay", "post_delay", "attempt", "stream",
                           "backoff", "fb_sleep", "result", "save"}

\* C14: at most one synthesis call is in progress at any time, and the list
\* is processed in order in a single pass: the Worker works on one list
\* position at a time, moves from position i to i + 1 only when nothing of
\* record i is pending (no call in progress, no result or save outstanding),
\* never moves back, and a call starts only when no call is running.
C14_OneCallInOrder ==
    [][ /\ idx' \in {idx, idx + 1}
        /\ idx' = idx + 1 => (pc \in {"read", "map", "post_delay"} /\ pc' = "loop"
                              /\ phase = "none" /\ result = NoResult)
        /\ WorkingOnRecord' => idx' < Len(note_ids)
        /\ (phase' = "primary" /\ phase # "primary") =>
              (phase = "none" /\ pc = "post_delay" /\ result = NoResult)
        /\ sent' # sent => (sent' = 0 \/ (sent' = sent + 1 /\ pc = "attempt"))
        /\ (phase # "none") = (pc \in {"attempt", "stream", "backoff", "fb_sleep"}) ]_vars

\* A synthesis call is in progress for the third record of the list.
C14_Witness ==
    /\ idx = 2
    /\ pc = "stream"
    /\ phase = "primary"
    /\ success_ops + failed_ops + skipped_ops >= 2

\* Record type t has no mapping at all, or only mappings with enabled = false.
NoEnabledMapping(t) ==
    \A i \in 1..Len(config.note_type_configs) :
        config.note_type_configs[i].note_type = t => ~config.note_type_configs[i].enabled

\* C15: a record that was read and whose type has no enabled mapping produces
\* no log event, no synthesis call and no change of the success, failed,
\* skipped, request or consecutive-error counters: the Worker goes straight
\* to the next list entry.
C15_NoEnabledMappingNoEffect ==
    [][ (pc = "read" /\ pc' # "read" /\ model_name' # ""
            /\ NoEnabledMapping(model_name')) =>
          /\ pc' = "loop"
          /\ idx' = idx + 1
          /\ emitted' = <<>>
          /\ UNCHANGED <<counters, session, phase, sent, result>> ]_vars

\* A record of a type whose only mapping is disabled was read and passed over.
C15_Witness ==
    /\ pc = "loop"
    /\ model_name = "Cloze"
    /\ idx = 1
    /\ emitted = <<>>
    /\ success_ops + failed_ops + skipped_ops = 0

\* s is a concatenation of whitespace characters and tags, a tag being "<",
\* one or more characters other than ">", and ">".
RECURSIVE OnlyTagsAndSpace(_)
OnlyTagsAndSpace(s) ==
    \/ s = <<>>
    \/ s # <<>> /\ Head(s) = " " /\ OnlyTagsAndSpace(Tail(s))
    \/ /\ s # <<>>
       /\ Head(s) = "<"
       /\ \E j \in 3..Len(s) :
             /\ s[j] = ">"
             /\ \A l \in 2..(j - 1) : s[l] # ">"
             /\ OnlyTagsAndSpace(SubSeq(s, j + 1, Len(s)))

\* C16: for every source text that consists only of markup tags and
\* whitespace the cleaned text is empty, and the mapping is counted as
\* skipped, never as failed, without a synthesis call.
C16_TagsAndSpaceAreSkipped ==
    [][ (pc = "map" /\ mi = 1 /\ OnlyTagsAndSpace(note_text)) =>
          /\ CleanText(note_text) = <<>>
          /\ skipped_ops' = skipped_ops + 1
          /\ UNCHANGED <<success_ops, failed_ops, consecutive_errors, session, phase, sent>>
          /\ pc' = "map"
          /\ mi' = 2 ]_vars

\* A text of a tag between whitespace was skipped for its empty cleaned text
\* (the skip rule for existing audio is off).
C16_Witness ==
    /\ note_text = <<" ", "<", "a", ">">>
    /\ ~config.skip_existing_audio
    /\ pc = "map"
    /\ mi = 2
    /\ skipped_ops = 1
    /\ failed_ops = 0

\* The value a little-endian field of n bytes at offset off holds.
RECURSIVE FieldAt(_, _, _)
FieldAt(bytes, off, n) ==
    IF n = 0 THEN 0
    ELSE bytes[off + 1] + 256 * FieldAt(bytes, off + 1, n - 1)

\* C17: encoding a payload of N bytes under a descriptor that gives rate R and
\* B bits per sample yields 44 header bytes followed by the payload unchanged;
\* the header declares PCM, one channel, rate R, B bits per sample, byte rate
\* R times the block alignment, chunk size 36 + N and data length N.
C17_HeaderDeclaresStream ==
    \A b \in BitDepths, r \in SampleRates :
        (mime_type = Descriptor(b, r) /\ entry # "none") =>
            LET out == outputs[1]
                w == out.bytes
                N == Len(audio_data)
            IN  /\ ~out.raised
                /\ Len(w) = 44 + N
                /\ SubSeq(w, 45, Len(w)) = audio_data
                /\ SubSeq(w, 1, 4) = <<82, 73, 70, 70>>
                /\ FieldAt(w, 4, 4) = 36 + N
                /\ FieldAt(w, 20, 2) = 1
                /\ FieldAt(w, 22, 2) = 1
                /\ FieldAt(w, 24, 4) = r
                /\ FieldAt(w, 28, 4) = r * FieldAt(w, 32, 2)
                /\ FieldAt(w, 32, 2) = b \div 8
                /\ FieldAt(w, 34, 2) = b
                /\ FieldAt(w, 40, 4) = N

\* Two bytes were encoded under audio/L16;rate=24000 and the header reads
\* back rate 24000, 16 bits and data length 2.
C17_Witness ==
    /\ entry = "convert_to_wav"
    /\ Len(outputs) = 1
    /\ mime_type = Descriptor(16, 24000)
    /\ audio_data = <<1, 255>>
    /\ FieldAt(outputs[1].bytes, 24, 4) = 24000
    /\ FieldAt(outputs[1].bytes, 34, 2) = 16
    /\ FieldAt(outputs[1].bytes, 40, 4) = 2

\* C18: when the descriptor names a playable container, the payload comes
\* back unchanged, on the first application and on the second.
C18_ContainerInputUnchanged ==
    (mime_type \in ContainerDescriptors /\ entry = "generate_audio") =>
        \A i \in 1..Len(outputs) :
            ~outputs[i].raised /\ outputs[i].bytes = audio_data

\* C19: the Worker is never past the start of a mapping (in the inter-request
\* delay or in a synthesis call) while the consecutive-error counter is 5 or
\* more, and the counter never exceeds 5.
C19_ThresholdCheckedBeforeMapping ==
    /\ pc \in {"delay", "post_delay", "attempt", "stream", "backoff"} =>
           consecutive_errors < ErrorThreshold
    /\ consecutive_errors <= ErrorThreshold

\* The waits of the worker context: for a marshalled owner-context call, in a
\* retry backoff, in the inter-request delay.
InWait == pc \in {"read", "save", "backoff", "delay"}

\* C20: every wait of the worker context polls the cancellation flag: a tick
\* that starts with the flag set ends with the Worker out of the wait.
C20_WaitsPollCancel ==
    [][ (is_cancelled /\ InWait) => pc' # pc ]_vars

\* The wait for the marshalled save ran out.
SaveTimeout == Save("timed_out")

\* C21 as stated: when the marshalled read or the marshalled save times out,
\* the Worker logs the error, counts the item as failed and continues.
C21_TimeoutCountedFailed ==
    [][ (ReadTimeout \/ SaveTimeout) =>
          /\ failed_ops' = failed_ops + 1
          /\ Len(LogEvents(emitted')) = 1
          /\ pc' \in {"loop", "map"} ]_vars

\* C21: a save that times out is logged and counted as one failed operation,
\* and the Worker continues with the next mapping of the record; a read that
\* times out is handled as a record that could not be read: no counter
\* changes, a skip is logged when verbose logging is on, and the Worker
\* continues with the next record.
C21_SaveTimeoutFailsReadTimeoutSkips ==
    [][ /\ SaveTimeout =>
              /\ failed_ops' = failed_ops + 1
              /\ UNCHANGED <<success_ops, skipped_ops, consecutive_errors, idx>>
              /\ LogEvents(emitted') = <<Log("save_future_error_timed_out")>>
              /\ pc' = "map"
              /\ mi' = mi + 1
        /\ ReadTimeout =>
              /\ UNCHANGED counters
              /\ LogEvents(emitted') =
                     (IF config.verbose_logging THEN <<Log("note_skipped")>> ELSE <<>>)
              /\ pc' = "loop"
              /\ idx' = idx + 1 ]_vars

\* A save timed out and the mapping was counted as failed.
C21_Witness ==
    /\ pc = "map"
    /\ LogEvents(emitted) = <<Log("save_future_error_timed_out")>>
    /\ failed_ops = 1
    /\ success_ops = 0

\* generate_audio raised.
RaiseExits == {"rate", "generic"}

\* C22: while the cancel flag is set, generate_audio sends no new request and
\* never raises: the flag seen before an attempt, between two chunks, in the
\* except clause (whatever the error) or at a backoff tick makes it return
\* no audio with the usage read so far.
C22_CancelledCallReturnsQuietly ==
    [][ (is_cancelled /\ pc \in {"attempt", "stream", "backoff"}) =>
          /\ pc' = "result"
          /\ sent' # sent + 1
          /\ ga_exit' \notin RaiseExits
          /\ ~result'.raised
          /\ (pc = "attempt" /\ attempt < config.retry_attempts) => ga_exit' = "cancel_pre"
          /\ pc = "backoff" => ga_exit' = "cancel_backoff"
          /\ (pc = "stream" /\ last_error' # "") => ga_exit' = "cancel_handler"
          /\ ga_exit' \in CancelExits =>
                 /\ ~result'.audio
                 /\ result'.stats = usage_stats
                 /\ result'.info \in NoAudioTexts ]_vars

\* The flag was seen in the except clause, on a rate-limit error that followed
\* a chunk with usage metadata: the call returned that usage and no audio.
C22_Witness ==
    /\ pc = "result"
    /\ is_cancelled
    /\ ga_exit = "cancel_handler"
    /\ RateLimitText(last_error)
    /\ result.stats = ChunkUsage
    /\ ~result.raised

\* The fallback model's generate_audio call ends without audio.
FallbackEndsWithoutAudio == phase = "fallback" /\ pc' = "result" /\ ~result'.audio

\* C23 as stated: every outcome of the fallback attempt without audio, a raised
\* error or a completed call, comes back as (none, error text, empty usage),
\* and the Worker adds no tokens for it.
C23_FailedFallbackEmptyUsage ==
    [][ /\ FallbackEndsWithoutAudio => result'.stats = EmptyStats
        /\ (pc = "result" /\ ~result.audio /\ result.info = "Fallback model: No audio generated")
               => UNCHANGED session ]_vars

\* C23: an error raised by the fallback attempt comes back as (none, error
\* text, empty usage) and adds no tokens; a fallback call that completes
\* without audio comes back as (none, "Fallback model: No audio generated",
\* usage read so far), and the Worker adds that usage to the session totals.
\* Either way no request is counted and the mapping goes on to be counted as
\* failed: the fallback is not tried again.
C23_FailedFallbackUsage ==
    [][ /\ FallbackEndsWithoutAudio =>
              /\ ~result'.raised
              /\ phase' = "none"
              /\ IF ga_exit' \in RaiseExits
                 THEN result'.stats = EmptyStats /\ result'.info = last_error'
                 ELSE /\ result'.stats = usage_stats
                      /\ result'.info = "Fallback model: No audio generated"
        /\ (pc = "result" /\ pc' # "result" /\ ~result.audio) =>
              /\ total_input_tokens' = total_input_tokens + result.stats.input_tokens
              /\ total_output_tokens' = total_output_tokens + result.stats.output_tokens
              /\ total_requests' = total_requests
              /\ failed_ops' = failed_ops + 1
              /\ pc' = "map" ]_vars

\* The fallback call completed without audio after a chunk with usage
\* metadata: its usage came back with the result.
C23_Witness ==
    /\ pc = "result"
    /\ ~result.audio
    /\ result.info = "Fallback model: No audio generated"
    /\ result.stats = ChunkUsage
    /\ ~is_cancelled

\* The progress events among evs.
ProgressEvents(evs) == SelectSeq(evs, LAMBDA e : e.signal = "progress_update")

\* The step is the Worker's: emitted' holds what this step emitted.
WorkerStep == is_cancelled' = is_cancelled

\* Every progress event of the step carries the position of the record the
\* Worker is working on, which never decreases, and no more than the length
\* of the list.
ProgressIndexInOrder ==
    /\ idx' >= idx
    /\ WorkerStep =>
          \A i \in 1..Len(ProgressEvents(emitted')) :
              /\ ProgressEvents(emitted')[i].index = idx + 1
              /\ ProgressEvents(emitted')[i].index <= Len(note_ids)

\* C24: the Worker emits a progress event when it completes a record of the
\* list, whatever became of the record (unreadable, gone, no enabled mapping);
\* the index of successive progress events never decreases and never exceeds
\* the length of the list.
C24_ProgressAfterEachRecord ==
    [][ /\ (WorkerStep /\ idx' = idx + 1) =>
              /\ ProgressEvents(emitted') # <<>>
              /\ ProgressEvents(emitted')[Len(ProgressEvents(emitted'))].index = idx'
        /\ ProgressIndexInOrder ]_vars

\* C25: every progress event carries the Worker's success, failed and skipped
\* counters as they are when it is emitted, every usage event the session
\* token totals as they are when it is emitted, and the summary the counters
\* at the end; the counters and totals never decrease, so neither do the
\* counts of successive events, cancelled and aborted batches included.
C25_EventsCarryCurrentCounts ==
    [][ /\ success_ops' >= success_ops
        /\ failed_ops' >= failed_ops
        /\ skipped_ops' >= skipped_ops
        /\ total_input_tokens' >= total_input_tokens
        /\ total_output_tokens' >= total_output_tokens
        /\ WorkerStep =>
              \A i \in 1..Len(emitted') :
                  /\ emitted'[i].signal = "progress_update" =>
                        /\ emitted'[i].success = success_ops'
                        /\ emitted'[i].failed = failed_ops'
                        /\ emitted'[i].skipped = skipped_ops'
                  /\ emitted'[i].signal = "usage_update" =>
                        /\ emitted'[i].input_tokens = total_input_tokens'
                        /\ emitted'[i].output_tokens = total_output_tokens'
        /\ finished_signal' # finished_signal =>
              /\ finished_signal'[Len(finished_signal')].success = success_ops
              /\ finished_signal'[Len(finished_signal')].failed = failed_ops
              /\ finished_signal'[Len(finished_signal')].skipped = skipped_ops ]_vars

\* In a cancelled batch the second mapping of a record was skipped for the
\* audio its target holds, after a failure: the progress event carries the
\* skip just counted.
C25_Witness ==
    /\ is_cancelled
    /\ pc = "map"
    /\ failed_ops = 1
    /\ skipped_ops = 1
    /\ ProgressEvents(emitted) # <<>>
    /\ ProgressEvents(emitted)[1].status = "Skipping..."
    /\ ProgressEvents(emitted)[1].skipped = 1
    /\ ProgressEvents(emitted)[1].failed = 1

\* The step counts a skipped mapping or a missing source field.
SkipOrMissingCounted ==
    pc = "map" /\ (skipped_ops' = skipped_ops + 1 \/ failed_ops' = failed_ops + 1)

\* The step ends the marshalled save, with the mapping counted as failed.
SaveFailedCounted == pc = "save" /\ failed_ops' = failed_ops + 1

\* C26 as stated: the consecutive-error counter goes back to zero only for a
\* mapping that ends as a full success; a skipped mapping and a missing source
\* field leave it as it is, and after a mapping whose save failed it is what
\* it was before that mapping.
C26_ResetOnlyByFullSuccess ==
    [][ /\ SkipOrMissingCounted => consecutive_errors' = consecutive_errors
        /\ SaveFailedCounted => consecutive_errors' = reset_from ]_vars

\* C26: the consecutive-error counter decreases only when a synthesis call
\* returns audio, and then to zero, before the save is attempted; the save
\* leaves it at zero whether it succeeds or fails, and a skipped mapping and a
\* missing source field leave it as it is.
C26_ResetByAudioBeforeSave ==
    [][ /\ consecutive_errors' < consecutive_errors =>
              (pc = "result" /\ result.audio /\ pc' = "save" /\ consecutive_errors' = 0)
        /\ (pc = "result" /\ result.audio /\ pc' # "result") => consecutive_errors' = 0
        /\ pc = "save" => (consecutive_errors = 0 /\ consecutive_errors' = 0)
        /\ SkipOrMissingCounted => consecutive_errors' = consecutive_errors ]_vars

\* After two synthesis failures a call returned audio and the save failed:
\* the counter is back at zero with no success counted.
C26_Witness ==
    /\ pc = "map"
    /\ LogEvents(emitted) = <<Log("save_error")>>
    /\ reset_from = 2
    /\ consecutive_errors = 0
    /\ failed_ops = 3
    /\ success_ops = 0

\* The step ends the read of a record with nothing to work on: the read
\* failed or the record no longer exists.
ReadCameBackEmpty == pc = "read" /\ pc' = "loop" /\ model_name' = ""

\* C27 as stated: when the read fails or the record is gone, the Worker emits
\* a skip log event, changes no counter and advances to the next record, for
\* every setting of the verbose-logging flag.
C27_FailedReadLogsSkip ==
    [][ ReadCameBackEmpty =>
          /\ LogEvents(emitted') = <<Log("note_skipped")>>
          /\ UNCHANGED counters
          /\ idx' = idx + 1 ]_vars

\* C27: when the read fails or the record is gone, the Worker changes no
\* counter and advances to the next record; it emits the skip log event when
\* verbose logging is on and no event when it is off.
C27_FailedReadSkipsQuietly ==
    [][ ReadCameBackEmpty =>
          /\ emitted' = (IF config.verbose_logging THEN <<Log("note_skipped")>> ELSE <<>>)
          /\ UNCHANGED <<counters, session>>
          /\ idx' = idx + 1 ]_vars

\* The second record of the list could not be read, with verbose logging off,
\* after a failure was counted on the first: nothing is emitted and the
\* counters are as they were.
C27_Witness ==
    /\ pc = "loop"
    /\ idx = 2
    /\ model_name = ""
    /\ ~config.verbose_logging
    /\ emitted = <<>>
    /\ failed_ops = 1
    /\ consecutive_errors = 1

\* The cancel flag is set and the Worker's next step sees it and drops the
\* work that is left: the rest of the list, the rest of the record's mappings,
\* or the mapping whose synthesis call the flag ended.
CancelCutsWork ==
    /\ is_cancelled
    /\ \/ pc = "loop" /\ idx < Len(note_ids)
       \/ pc = "map" /\ mi <= Len(configs)
       \/ pc \in {"delay", "post_delay"}
       \/ pc = "result" /\ ga_exit \in CancelExits

\* C28: whenever a cancel request stops the batch, wherever it arrives
\* (between records, inside a mapping, in the last record of the list), the
\* Worker emits the cancellation log event, before the summary.
C28_CancelLoggedBeforeSummary ==
    CancelCutsWork ~> (pc # "done" /\ LogEvents(emitted) = <<Log("cancelled")>>)

\* The filename a sound tag refers to.
Referenced(tag) == SubSeq(tag, 2, Len(tag) - 1)

\* The save that stands in a record's target field: the latest one that
\* reached the record.
Stands(i) ==
    /\ saves[i].returned[1]
    /\ col_notes[saves[i].nid].present
    /\ \A j \in (i + 1)..Len(saves) :
          saves[j].returned[1] =>
              <<saves[j].nid, saves[j].t_field>> # <<saves[i].nid, saves[i].t_field>>

\* C29: any two saves of a batch use distinct generated filenames, and the
\* reference in a target field names the media blob that holds the audio
\* of the mapping that was saved into that field.
C29_DistinctNamesRightBlob ==
    /\ \A i, j \in 1..Len(saves) : i # j => saves[i].filename # saves[j].filename
    /\ \A i \in 1..Len(saves) :
          Stands(i) =>
              LET tag == col_notes[saves[i].nid].fields[saves[i].t_field]
              IN  /\ Referenced(tag) \in DOMAIN media
                  /\ media[Referenced(tag)] = saves[i].data

\* C30: a synthesis call that sees the cancel flag returns no audio, also
\* when the stream had yielded audio, and no error; the Worker counts the
\* mapping as a failed operation, adds one to the consecutive-error counter
\* and logs a synthesis failure.
C30_CancelInsideCallIsAFailure ==
    [][ /\ (pc \in {"attempt", "stream", "backoff"} /\ ga_exit' \in CancelExits) =>
              /\ is_cancelled
              /\ ~result'.audio
              /\ ~result'.raised
              /\ result'.info \in NoAudioTexts
        /\ (pc = "result" /\ pc' # "result" /\ ga_exit \in CancelExits) =>
              /\ Count("synth_failed")
              /\ LogEvents(emitted') = <<Log("synthesis_failed")>>
              /\ total_requests' = total_requests ]_vars

\* The stream yielded a chunk and then raised; the flag was seen during the
\* backoff and the call has handed the Worker no audio and no error.
C30_Witness ==
    /\ pc = "result"
    /\ is_cancelled
    /\ ga_exit = "cancel_backoff"
    /\ result.stats.present
    /\ result.stats.input_tokens > 0
    /\ ~result.audio
    /\ ~result.raised

\* Target-field updates that reached the collection.
Persisted == Cardinality({ i \in 1..Len(saves) : saves[i].returned[1] })

\* The Worker is waiting for the wrapper at the head of the owner's queue.
HeadAwaited == pc = "save" /\ ~container.event /\ Len(main_queue) = 1

\* C31: a mapping counted as failed because its save timed out or raised
\* never has its effect applied afterwards: the media store and the records'
\* fields are written by save_result only while the Worker waits for that
\* save, and whenever the Worker is not inside a save, success_ops is the
\* number of target-field updates that were persisted.
C31_FailedSaveNeverApplied ==
    [][ /\ (saves' # saves \/ media' # media) => HeadAwaited
        /\ pc' # "save" => success_ops' = Persisted' ]_vars

\* C32: with skip_existing_audio set, no save that reaches a record
\* replaces a target field that holds an audio reference at the time of the
\* write, also when two mappings share the target field and when the owner
\* adds audio between the read and the save.
C32_AudioNeverOverwritten ==
    config.skip_existing_audio =>
        \A i \in 1..Len(saves) : saves[i].returned[1] => ~HasSound(saves[i].previous)

\* C33: the Worker emits finished_signal once and it is the last thing the
\* run does: after it no event is emitted, no synthesis call is made, no
\* call is handed to the owner context and no save_result touches the
\* collection or the media store.
C33_TerminalEventIsLast ==
    [][ /\ Len(finished_signal') <= 1
        /\ finished_signal # <<>> =>
              /\ finished_signal' = finished_signal
              /\ emitted' = emitted
              /\ sent' = sent
              /\ total_requests' = total_requests
              /\ Len(main_queue') <= Len(main_queue)
              /\ saves' = saves
              /\ media' = media ]_vars

\* C34: for every shape of the stored configuration, on_finished writes a
\* configuration of the shape {current_profile, profiles} whose active
\* Profile is the one the Handler resolved, changed in its usage counters
\* only; while the Worker runs, the Handler's configuration is not changed.
C34_WritesSnapshotWithNewCounters ==
    [][ /\ (handler_pc = "signalled" /\ handler_pc' # "signalled") =>
              /\ handler_pc' = "finished"
              /\ stored_config'.shape = "profiles"
              /\ [stored_config'.profile EXCEPT !.stats = active_config.stats]
                    = active_config
              /\ stored_config'.profile.stats
                    = MergedStats(active_config, session_stats)
        /\ handler_pc = "running" =>
              (active_config' = active_config /\ global_config' = global_config) ]_vars

\* One of the three operation counters went up by one, the others stayed.
OneCounterUp ==
    \/ success_ops' = success_ops + 1 /\ UNCHANGED <<failed_ops, skipped_ops>>
    \/ failed_ops' = failed_ops + 1 /\ UNCHANGED <<success_ops, skipped_ops>>
    \/ skipped_ops' = skipped_ops + 1 /\ UNCHANGED <<success_ops, failed_ops>>

\* C35 as stated: in every state success_ops is at most the request counter,
\* which is at most the number of orchestrator calls that returned audio, and
\* the request counter exceeds success_ops by the number of mappings that got
\* audio and whose save failed.
C35_RequestsAreSuccessesPlusFailedSaves ==
    /\ success_ops <= total_requests
    /\ total_requests <= n_audio_results
    /\ total_requests - success_ops = save_failures

\* C35, amended: the same with the mapping whose save is under way counted
\* in the difference, and each counter change ends its mapping and raises
\* exactly one of the three counters by one.
C35_RequestsCountPendingSave ==
    /\ [](/\ success_ops <= total_requests
          /\ total_requests <= n_audio_results
          /\ total_requests - success_ops
                = save_failures + (IF pc = "save" THEN 1 ELSE 0))
    /\ [][ <<success_ops, failed_ops, skipped_ops>>' # <<success_ops, failed_ops, skipped_ops>>
              => (OneCounterUp /\ mi' = mi + 1 /\ pc' = "map") ]_vars

\* Two mappings got audio; the save of one failed, the other was saved.
C35_Witness ==
    /\ pc # "save"
    /\ total_requests = 2
    /\ success_ops = 1
    /\ save_failures = 1
    /\ failed_ops = 1

====
